---- MODULE Spec2Model ----
(***************************************************************************)
(* Model of the chart packaging code of helm (package util, save.go):      *)
(* validateName, writeToTar, writeTarContents, Save and SaveDir, over an   *)
(* explicit model of path strings and of the filesystem.                   *)
(*                                                                         *)
(* A string is a sequence of atoms.  An atom is a TLA+ string that stands  *)
(* for a piece of text that is never split: "/" is the path separator,     *)
(* "." is one dot, and every other atom ("a", "-", "1", ".tgz",            *)
(* "Chart.yaml", ...) is a piece of text with no separator in it that is   *)
(* not made of dots only.  The text of a string is the concatenation of    *)
(* its atoms.                                                              *)
(***************************************************************************)
EXTENDS Integers, Sequences, FiniteSets, TLC

(***************************************************************************)
(* Bounds of the model.                                                    *)
(***************************************************************************)
MaxNameLen == 3

(***************************************************************************)
(* Strings and paths (path/filepath on a Unix build).                      *)
(***************************************************************************)
Separator == "/"

NameAtoms == {"a", "d", ".", Separator}

RECURSIVE StrUpTo(_, _)
StrUpTo(A, n) ==
    IF n = 0 THEN {<<>>}
    ELSE LET S == StrUpTo(A, n - 1)
         IN  S \cup {Append(s, c) : s \in {t \in S : Len(t) = n - 1}, c \in A}

Names == StrUpTo(NameAtoms, MaxNameLen)

IsPathSeparator(c) == c = Separator

HasSeparator(s) == \E i \in 1..Len(s) : IsPathSeparator(s[i])

\* index of the last separator of s, 0 when it has none
LastSep(s) ==
    LET I == {i \in 1..Len(s) : IsPathSeparator(s[i])}
    IN  IF I = {} THEN 0 ELSE CHOOSE i \in I : \A j \in I : j <= i

RECURSIVE StripTrailingSep(_)
StripTrailingSep(s) ==
    IF Len(s) > 0 /\ IsPathSeparator(s[Len(s)])
    THEN StripTrailingSep(SubSeq(s, 1, Len(s) - 1))
    ELSE s

\* filepath.Base: the last element of the path; "." for the empty path, the
\* separator for a path of separators only.
Base(path) ==
    IF path = <<>> THEN <<".">>
    ELSE LET s == StripTrailingSep(path)
             t == SubSeq(s, LastSep(s) + 1, Len(s))
         IN  IF t = <<>> THEN <<Separator>> ELSE t

\* the elements of a path: the pieces between separators (empty pieces kept)
RECURSIVE SplitPath(_)
SplitPath(s) ==
    IF ~HasSeparator(s) THEN <<s>>
    ELSE LET i == CHOOSE k \in 1..Len(s) :
                     /\ IsPathSeparator(s[k])
                     /\ \A j \in 1..(k - 1) : ~IsPathSeparator(s[j])
         IN  <<SubSeq(s, 1, i - 1)>> \o SplitPath(SubSeq(s, i + 1, Len(s)))

Dot == <<".">>
DotDot == <<".", ".">>

\* filepath.Clean's element loop: out is the stack of kept elements
RECURSIVE CleanElems(_, _, _)
CleanElems(elems, out, rooted) ==
    IF elems = <<>> THEN out
    ELSE LET e == Head(elems)
             rest == Tail(elems)
         IN  IF e = <<>> \/ e = Dot THEN CleanElems(rest, out, rooted)
             ELSE IF e = DotDot
                  THEN IF Len(out) > 0 /\ out[Len(out)] # DotDot
                       THEN CleanElems(rest, SubSeq(out, 1, Len(out) - 1), rooted)
                       ELSE IF rooted THEN CleanElems(rest, out, rooted)
                            ELSE CleanElems(rest, Append(out, DotDot), rooted)
                  ELSE CleanElems(rest, Append(out, e), rooted)

RECURSIVE JoinElems(_)
JoinElems(elems) ==
    IF elems = <<>> THEN <<>>
    ELSE IF Len(elems) = 1 THEN elems[1]
         ELSE elems[1] \o <<Separator>> \o JoinElems(Tail(elems))

\* filepath.Clean
Clean(path) ==
    IF path = <<>> THEN Dot
    ELSE LET rooted == IsPathSeparator(path[1])
             out == CleanElems(SplitPath(path), <<>>, rooted)
         IN  IF rooted THEN <<Separator>> \o JoinElems(out)
             ELSE IF out = <<>> THEN Dot ELSE JoinElems(out)

\* filepath.Join of two elements: empty elements are ignored, the rest is
\* joined by the separator and cleaned; "" when both are empty
Join(a, b) ==
    IF a # <<>> THEN Clean(a \o <<Separator>> \o b)
    ELSE IF b # <<>> THEN Clean(b)
         ELSE <<>>

\* filepath.Dir: the path up to its last separator, cleaned
Dir(path) == Clean(SubSeq(path, 1, LastSep(path)))

\* filepath.ToSlash: every Separator becomes a slash
ToSlash(s) == [i \in 1..Len(s) |-> IF s[i] = Separator THEN "/" ELSE s[i]]

(***************************************************************************)
(* Errors.  kind names the error, arg is what it carries, ctx the          *)
(* annotations wrapped around it, outermost first.                         *)
(***************************************************************************)
Err(kind, arg) == [kind |-> kind, arg |-> arg, ctx |-> <<>>]

NoErr == Err("nil", <<>>)

Wrap(note, e) == [e EXCEPT !.ctx = <<note>> \o @]

ErrInvalidChartName(name) == Err("InvalidName", name)

\* validateName: the name must be its own Base
validateName(name) ==
    LET nname == Base(name)
    IN  IF nname # name THEN ErrInvalidChartName(name) ELSE NoErr

(***************************************************************************)
(* Names of the chart layout (package constants) and file modes.           *)
(***************************************************************************)
ChartfileName == <<"Chart.yaml">>
ValuesfileName == <<"values.yaml">>
SchemafileName == <<"values.schema.json">>
ChartsDir == <<"charts">>
LockfileName == <<"Chart.lock">>

FileMode == 420     \* 0644
DirMode == 493      \* 0755

(***************************************************************************)
(* Charts.  A chart is read, never changed.  rev ("r1", "r2") stands for   *)
(* the bytes of its documents and files: two charts with different rev     *)
(* have different contents.  valid tells whether the chart is structurally *)
(* valid (apart from its name), as its own Validate judges it.  schema is  *)
(* "absent", "valid" (well-formed JSON) or "bad" (not well-formed).        *)
(* raw, templates and files are lists of file names; deps is the list of   *)
(* dependency charts.                                                      *)
(***************************************************************************)
MkChart(name, rev, valid, lock, raw, schema, templates, files, deps) ==
    [name |-> name, version |-> <<"1">>, rev |-> rev, valid |-> valid,
     lock |-> lock, raw |-> raw, schema |-> schema,
     templates |-> templates, files |-> files, deps |-> deps]

\* c.Name()
ChartName(c) == c.name

\* c.Dependencies()
Dependencies(c) == c.deps

\* the bytes of a file of the chart
FileData(c, fname) == <<"data:">> \o fname \o <<":", c.rev>>

\* yaml.Marshal of the metadata and of the lock
MetadataYAML(c) == <<"name:">> \o c.name \o <<"version:">> \o c.version \o <<":", c.rev>>
LockYAML(c) == <<"lock:">> \o c.name \o <<":", c.rev>>

\* c.Schema, when present
SchemaData(c) == <<"schema:", c.schema, ":", c.rev>>

\* json.Valid on the schema bytes
JSONValid(c) == c.schema = "valid"

\* c.ChartFullPath() of a direct dependency dep of the root chart c
ChartFullPath(c, dep) == ChartName(c) \o <<"/", "charts", "/">> \o ChartName(dep)

(***************************************************************************)
(* The filesystem: a function from cleaned paths to nodes.  The working    *)
(* directory ".", its parents "..", "../.." and the root "/" always exist  *)
(* as directories and are not in the function's domain.                    *)
(***************************************************************************)
DirNode == [kind |-> "dir", entries |-> <<>>, body |-> <<>>, sealed |-> FALSE]

\* a regular file: an archive under construction or finished (its entries;
\* sealed when the archive and compression layers were closed without
\* error), or a plain file holding body.  The entries of a file that is not
\* sealed are those given to its writers: the compression layer holds bytes
\* back until it is flushed or closed, so they need not be on disk yet.
FileNode(entries, body, sealed) ==
    [kind |-> "file", entries |-> entries, body |-> body, sealed |-> sealed]

EmptyFile == FileNode(<<>>, <<>>, FALSE)

IsImplicitDir(p) ==
    \/ p = Dot
    \/ p = <<Separator>>
    \/ \A i \in 1..Len(SplitPath(p)) : SplitPath(p)[i] = DotDot

\* the proper ancestors of a cleaned path, nearest last
RECURSIVE Ancestors(_)
Ancestors(p) ==
    IF IsImplicitDir(p) THEN <<>>
    ELSE LET d == Dir(p) IN IF d = p THEN <<>> ELSE Append(Ancestors(d), d)

Exists(f, p) == IsImplicitDir(p) \/ p \in DOMAIN f
IsDirAt(f, p) == IsImplicitDir(p) \/ (p \in DOMAIN f /\ f[p].kind = "dir")
IsFileAt(f, p) == ~IsImplicitDir(p) /\ p \in DOMAIN f /\ f[p].kind = "file"

\* os.Stat whose result is not asked whether it is a directory
StatAnythingIsDir(f, p) ==
    IF IsDirAt(f, p) \/ IsFileAt(f, p) THEN "dir"
    ELSE IF \E i \in 1..Len(Ancestors(p)) : IsFileAt(f, Ancestors(p)[i])
         THEN "ENOTDIR"
         ELSE "ENOENT"

\* os.Stat: "dir", "file", "ENOENT" (does not exist) or "ENOTDIR" (an
\* ancestor is not a directory)
Stat(f, p) ==
    IF IsDirAt(f, p) THEN "dir"
    ELSE IF IsFileAt(f, p) THEN "file"
    ELSE IF \E i \in 1..Len(Ancestors(p)) : IsFileAt(f, Ancestors(p)[i])
         THEN "ENOTDIR"
         ELSE "ENOENT"

EmptyFS == [q \in {} |-> DirNode]

Put(f, p, node) == [q \in DOMAIN f \cup {p} |-> IF q = p THEN node ELSE f[q]]

Del(f, p) == [q \in DOMAIN f \ {p} |-> f[q]]

\* os.MkdirAll succeeds when no element of the path is a regular file
CanMkdirAll(f, p) ==
    /\ ~IsFileAt(f, p)
    /\ \A i \in 1..Len(Ancestors(p)) : ~IsFileAt(f, Ancestors(p)[i])

\* a directory made afresh: what was below the path is cleared first
MkdirAllCleared(f, p) ==
    LET kept == {q \in DOMAIN f : ~(Len(q) > Len(p) + 1
                                      /\ SubSeq(q, 1, Len(p) + 1) = p \o <<Separator>>)}
        new == {q \in {p} \cup {Ancestors(p)[i] : i \in 1..Len(Ancestors(p))} :
                    ~Exists(f, q)}
    IN  [q \in kept \cup new |-> IF q \in new THEN DirNode ELSE f[q]]

\* os.MkdirAll: the path and every missing ancestor become directories
MkdirAll(f, p) ==
    LET new == {q \in {p} \cup {Ancestors(p)[i] : i \in 1..Len(Ancestors(p))} :
                    ~Exists(f, q)}
    IN  [q \in DOMAIN f \cup new |-> IF q \in new THEN DirNode ELSE f[q]]

\* what an os.MkdirAll that fails may leave: the missing ancestors are made
\* one after the other, and those made before the failure stay
MkdirAllFailed(f, p) ==
    {f} \cup {MkdirAll(f, Ancestors(p)[i]) :
                i \in {j \in 1..Len(Ancestors(p)) : CanMkdirAll(f, Ancestors(p)[j])}}

\* os.Create and os.WriteFile open with create-and-truncate: possible when
\* the parent is a directory and the path is not a directory
CanCreate(f, p) == IsDirAt(f, Dir(p)) /\ ~IsDirAt(f, p)

(***************************************************************************)
(* State.                                                                  *)
(***************************************************************************)
VARIABLES
    nm,         \* the name given to validateName (validateName on its own)
    vres,       \* what validateName returned, or "none" before the call
    fs,         \* the filesystem
    proc,       \* per caller: the position and the locals of its call
    clock,      \* the time that time.Now() has shown last, in seconds
    pool,       \* the charts each caller passes (fixed by the initial state)
    dirs,       \* the directories the callers name (fixed by the initial state)
    callsLeft,  \* how many more calls the callers make
    hist,       \* what the calls made so far returned, in the order they returned
    kw          \* kstatusWaiter.Wait: the call, its watcher and its collector

vars == <<nm, vres, fs, proc, clock, pool, dirs, callsLeft, hist, kw>>

\* no call of Wait is made
NotWaiting == [pc |-> "off"]

Procs == {1, 2}

NoChart == MkChart(<<>>, "r0", FALSE, FALSE, <<>>, "absent", <<>>, <<>>, <<>>)

\* a caller that is in no call.  Fields: op, c, dest: the top-level call;
\* outdir, i: locals of SaveDir; sc, soutDir, filename, rollback: locals of
\* Save; stack, stream, werr: writeTarContents (its frames, the entries
\* appended to the tar writer, its result); closes: the layers closed so
\* far with the result of each Close; spath, serr: what Save returns; ret:
\* what the last top-level call returned; log: the steps the current
\* top-level call has taken; fs0: the filesystem
\* as the call found it; fd: the file f that os.Create returned ("open":
\* it is the file at filename, "unlinked": it is open and its path has
\* been removed, "none": it is not open); rivals: the callers that have
\* written to or truncated the file of fd since it was created; rm: what
\* the os.Remove of the rollback returned ("ok", "failed"), "none" when it
\* was not called.
IdleProc ==
    [pc |-> "idle", op |-> "none", c |-> NoChart, dest |-> <<>>,
     outdir |-> <<>>, i |-> 0,
     sc |-> NoChart, soutDir |-> <<>>, filename |-> <<>>, rollback |-> FALSE,
     stack |-> <<>>, stream |-> <<>>, werr |-> NoErr, closes |-> <<>>,
     spath |-> <<>>, serr |-> NoErr,
     fd |-> "none", rivals |-> {}, rm |-> "none", base |-> <<>>,
     ret |-> [op |-> "none", path |-> <<>>, err |-> NoErr], log |-> <<>>, fs0 |-> EmptyFS]

\* a step of a call: what was done (ev), to which path or name (arg) and,
\* for an archive entry, of which chart (the text prefix/name of its frame)
Ev(ev, arg) == [ev |-> ev, arg |-> arg, of |-> <<>>]

EvOf(ev, arg, of) == [ev |-> ev, arg |-> arg, of |-> of]

Logged(p, e) == Append(proc[p].log, e)

\* the text "dir/name", as written (not cleaned); name when dir is empty
Under(dir, name) == IF dir = <<>> THEN name ELSE dir \o <<Separator>> \o name

(***************************************************************************)
(* writeToTar: one entry, header then body.  outcome is what the tar       *)
(* writer does: "ok", "hdrfail" (WriteHeader fails, nothing is appended)   *)
(* or "bodyfail" (Write fails, the entry is left without its body).        *)
(***************************************************************************)
Entry(name, body, now, whole) ==
    [name |-> ToSlash(name), mode |-> FileMode, size |-> Len(body),
     mtime |-> now, body |-> IF whole THEN body ELSE <<>>, whole |-> whole]

writeToTar(out, name, body, now, outcome) ==
    IF outcome = "hdrfail"
    THEN [out |-> out, err |-> Err("FilesystemFailure", name)]
    ELSE IF outcome = "bodyfail"
         THEN [out |-> Append(out, Entry(name, body, now, FALSE)),
               err |-> Err("FilesystemFailure", name)]
         ELSE [out |-> Append(out, Entry(name, body, now, TRUE)), err |-> NoErr]

TarOutcomes == {"ok", "hdrfail", "bodyfail"}

(***************************************************************************)
(* writeTarContents, one step at a time.  A frame is one activation:       *)
(* the chart, the prefix, base (set once the name is validated), the       *)
(* phase ph and the loop index i.  The top frame is the last of the stack. *)
(***************************************************************************)
\* writeTarContents without its call of validateName
FrameUnchecked(c, prefix) ==
    [c |-> c, prefix |-> prefix, base |-> Join(prefix, ChartName(c)), ph |-> "meta", i |-> 1]

Frame(c, prefix) == [c |-> c, prefix |-> prefix, base |-> <<>>, ph |-> "name", i |-> 1]

\* the chart of a frame, as the text prefix/name
FrameOf(f) == Under(f.prefix, ChartName(f.c))

Top(p) == proc[p].stack[Len(proc[p].stack)]

InTar(p, ph) ==
    /\ proc[p].pc = "tar"
    /\ proc[p].stack # <<>>
    /\ Top(p).ph = ph

\* the stack with its top frame replaced
SetTop(p, f) == [proc[p].stack EXCEPT ![Len(proc[p].stack)] = f]

\* the archive layer and the compression layer have both been closed, and
\* neither Close has failed: the archive given to them is whole in the file
Flushed(closes) == Len(closes) >= 2 /\ closes[1].ok /\ closes[2].ok

\* a file opened without O_TRUNC, for appending: what it held is kept
TruncateSkipped(entries) == entries

\* os.Create opens the file with O_TRUNC: of the entries it held, none is
\* kept
Truncate(entries) == <<>>

\* a file whose bytes are not those of one writer: it cannot be read as an
\* archive
TornFile == FileNode(<<>>, <<"torn">>, FALSE)

\* a write through the file of p reaches the file at its path when that
\* file is still there; out is what p has given to its writers so far
Writes(p, out) == proc[p].fd = "open" /\ out # proc[p].stream

\* what the file of p may hold after p has written out through it.  A file
\* with one writer holds what os.Create has left in it (base) and then what
\* the writer was given.  Writers that share a
\* file write each at its own offset, over what the others wrote: the
\* file then holds the bytes of one of them or a mix of them.
Written(p, out, sealed) ==
    IF proc[p].rivals = {}
    THEN {FileNode(proc[p].base \o out, <<>>, sealed)}
    ELSE {TornFile, FileNode(proc[p].base \o out, <<>>, sealed)}
         \cup {FileNode(proc[q].base \o proc[q].stream, <<>>, Flushed(proc[q].closes)) :
                  q \in {r \in proc[p].rivals : proc[r].filename = proc[p].filename}}

\* the callers after a step of p, pr, in which p has written to (wrote)
\* the file at path: p is from now on a rival of every caller that has
\* that file open
Rivalled(p, wrote, path, pr) ==
    [q \in Procs |->
        IF wrote /\ q # p /\ proc[q].fd = "open" /\ proc[q].filename = path
        THEN [pr[q] EXCEPT !.rivals = @ \cup {p}]
        ELSE pr[q]]

\* the file that Save has open receives what the tar writer is given: the
\* write goes through f, the file os.Create returned, into the file that
\* was created, which is at the path of p unless the path was removed
Mirror(f, p, out, node) ==
    IF Writes(p, out)
    THEN Put(f, proc[p].filename, node)
    ELSE f

\* the seconds the clock shows while the calls run
Times == {0, 1}

\* writeTarContents returns err from every activation at once
TarFail(p, out, err, ev) ==
    /\ proc' = Rivalled(p, Writes(p, out), proc[p].filename,
                        [proc EXCEPT ![p].stack = <<>>, ![p].stream = out,
                                     ![p].werr = err, ![p].pc = "sv_after",
                                     ![p].log = Logged(p, ev)])
    /\ \E node \in Written(p, out, FALSE) : fs' = Mirror(fs, p, out, node)

\* the step of the top frame that writes one entry at path name and then
\* goes on with frame next.  writeToTar reads time.Now() for the header of
\* the entry: the clock shows the time it showed last or a later one
TarWrite(p, name, body, outcome, next) ==
    \E t \in {u \in Times : u >= clock} :
       LET r == writeToTar(proc[p].stream, name, body, t, outcome)
       IN  /\ clock' = t
           /\ IF r.err # NoErr
              THEN TarFail(p, r.out, r.err,
                           EvOf("entryfail", ToSlash(name), FrameOf(Top(p))))
              ELSE /\ proc' = Rivalled(p, Writes(p, r.out), proc[p].filename,
                                  [proc EXCEPT ![p].stack = SetTop(p, next),
                                               ![p].stream = r.out,
                                               ![p].log = Logged(p, EvOf("entry", ToSlash(name),
                                                                          FrameOf(Top(p))))])
                   /\ \E node \in Written(p, r.out, FALSE) :
                         fs' = Mirror(fs, p, r.out, node)

\* the top frame writes no entry and goes on with frame next
TarSkip(p, next) ==
    /\ clock' = clock
    /\ proc' = [proc EXCEPT ![p].stack = SetTop(p, next)]
    /\ fs' = fs

TarValidateName(p) ==
    /\ InTar(p, "name")
    /\ LET f == Top(p)
           err == validateName(ChartName(f.c))
       IN  IF err # NoErr
           THEN TarFail(p, proc[p].stream, err, Ev("badname", ChartName(f.c)))
           ELSE /\ proc' = [proc EXCEPT
                      ![p].stack = SetTop(p, [f EXCEPT !.base = Join(f.prefix, ChartName(f.c)),
                                                       !.ph = "meta"]),
                      ![p].log = Logged(p, Ev("nameok", FrameOf(f)))]
                /\ fs' = fs
    /\ UNCHANGED <<kw, nm, vres, clock, pool, dirs, callsLeft, hist>>

TarChartfile(p) ==
    /\ InTar(p, "meta")
    /\ LET f == Top(p)
       IN  \E outcome \in TarOutcomes \cup {"marshalfail"} :
              IF outcome = "marshalfail"
              THEN /\ clock' = clock
                   /\ TarFail(p, proc[p].stream, Err("MarshalFailure", ChartfileName),
                              Ev("marshalfail", f.base))
              ELSE TarWrite(p, Join(f.base, ChartfileName), MetadataYAML(f.c), outcome,
                            [f EXCEPT !.ph = "lock"])
    /\ UNCHANGED <<kw, nm, vres, pool, dirs, callsLeft, hist>>

TarLock(p) ==
    /\ InTar(p, "lock")
    /\ LET f == Top(p)
           next == [f EXCEPT !.ph = "raw", !.i = 1]
       IN  IF f.c.lock
           THEN \E outcome \in TarOutcomes \cup {"marshalfail"} :
                   IF outcome = "marshalfail"
                   THEN /\ clock' = clock
                        /\ TarFail(p, proc[p].stream, Err("MarshalFailure", LockfileName),
                                   Ev("marshalfail", f.base))
                   ELSE TarWrite(p, Join(f.base, LockfileName), LockYAML(f.c), outcome, next)
           ELSE TarSkip(p, next)
    /\ UNCHANGED <<kw, nm, vres, pool, dirs, callsLeft, hist>>

TarValues(p) ==
    /\ InTar(p, "raw")
    /\ LET f == Top(p)
       IN  IF f.i > Len(f.c.raw)
           THEN TarSkip(p, [f EXCEPT !.ph = "schema"])
           ELSE IF f.c.raw[f.i] = ValuesfileName
                THEN \E outcome \in TarOutcomes :
                        TarWrite(p, Join(f.base, ValuesfileName),
                                 FileData(f.c, f.c.raw[f.i]), outcome,
                                 [f EXCEPT !.i = f.i + 1])
                ELSE TarSkip(p, [f EXCEPT !.i = f.i + 1])
    /\ UNCHANGED <<kw, nm, vres, pool, dirs, callsLeft, hist>>

TarSchema(p) ==
    /\ InTar(p, "schema")
    /\ LET f == Top(p)
           next == [f EXCEPT !.ph = "tmpl", !.i = 1]
       IN  IF f.c.schema # "absent"
           THEN IF ~JSONValid(f.c)
                THEN /\ clock' = clock
                     /\ TarFail(p, proc[p].stream, Err("MalformedSchema", SchemafileName),
                                Ev("badschema", f.base))
                ELSE \E outcome \in TarOutcomes :
                        TarWrite(p, Join(f.base, SchemafileName), SchemaData(f.c),
                                 outcome, next)
           ELSE TarSkip(p, next)
    /\ UNCHANGED <<kw, nm, vres, pool, dirs, callsLeft, hist>>

TarTemplates(p) ==
    /\ InTar(p, "tmpl")
    /\ LET f == Top(p)
       IN  IF f.i > Len(f.c.templates)
           THEN TarSkip(p, [f EXCEPT !.ph = "files", !.i = 1])
           ELSE \E outcome \in TarOutcomes :
                   TarWrite(p, Join(f.base, f.c.templates[f.i]),
                            FileData(f.c, f.c.templates[f.i]), outcome,
                            [f EXCEPT !.i = f.i + 1])
    /\ UNCHANGED <<kw, nm, vres, pool, dirs, callsLeft, hist>>

TarFiles(p) ==
    /\ InTar(p, "files")
    /\ LET f == Top(p)
       IN  IF f.i > Len(f.c.files)
           THEN TarSkip(p, [f EXCEPT !.ph = "deps", !.i = 1])
           ELSE \E outcome \in TarOutcomes :
                   TarWrite(p, Join(f.base, f.c.files[f.i]),
                            FileData(f.c, f.c.files[f.i]), outcome,
                            [f EXCEPT !.i = f.i + 1])
    /\ UNCHANGED <<kw, nm, vres, pool, dirs, callsLeft, hist>>

\* the loop over the dependencies: a recursive call for the next one, or
\* the return of this activation when there is none left
TarDependencies(p) ==
    /\ InTar(p, "deps")
    /\ LET f == Top(p)
           deps == Dependencies(f.c)
       IN  IF f.i <= Len(deps)
           THEN proc' = [proc EXCEPT
                    ![p].stack = Append(SetTop(p, [f EXCEPT !.i = f.i + 1]),
                                        Frame(deps[f.i], Join(f.base, ChartsDir)))]
           ELSE IF Len(proc[p].stack) > 1
                THEN proc' = [proc EXCEPT
                         ![p].stack = SubSeq(proc[p].stack, 1, Len(proc[p].stack) - 1)]
                ELSE proc' = [proc EXCEPT ![p].stack = <<>>, ![p].werr = NoErr,
                                          ![p].pc = "sv_after"]
    /\ UNCHANGED <<kw, nm, vres, fs, clock, pool, dirs, callsLeft, hist>>

(***************************************************************************)
(* writeTarContents as a whole, for a tar writer that takes every write:   *)
(* the entries it appends, up to the first error, and that error.  The     *)
(* time of an entry depends on the clock and is left at 0 here: the        *)
(* entries of an archive are compared with these without their times.      *)
(***************************************************************************)
\* the entries without their times
Untimed(out) == [k \in 1..Len(out) |-> [out[k] EXCEPT !.mtime = 0]]

RECURSIVE EntriesOfFiles(_, _, _)
EntriesOfFiles(c, base, names) ==
    IF names = <<>> THEN <<>>
    ELSE <<Entry(Join(base, Head(names)), FileData(c, Head(names)), 0, TRUE)>>
         \o EntriesOfFiles(c, base, Tail(names))

\* the loop over c.Raw: one entry for every raw file named values.yaml
RECURSIVE EntriesOfValues(_, _, _)
EntriesOfValues(c, base, raw) ==
    IF raw = <<>> THEN <<>>
    ELSE (IF Head(raw) = ValuesfileName
          THEN <<Entry(Join(base, ValuesfileName), FileData(c, Head(raw)), 0, TRUE)>>
          ELSE <<>>)
         \o EntriesOfValues(c, base, Tail(raw))

RECURSIVE BuiltEntries(_, _)
RECURSIVE BuiltDependencies(_, _)
BuiltEntries(c, prefix) ==
    IF validateName(ChartName(c)) # NoErr
    THEN [out |-> <<>>, err |-> validateName(ChartName(c))]
    ELSE LET base == Join(prefix, ChartName(c))
             head == <<Entry(Join(base, ChartfileName), MetadataYAML(c), 0, TRUE)>>
                     \o (IF c.lock
                         THEN <<Entry(Join(base, LockfileName), LockYAML(c), 0, TRUE)>>
                         ELSE <<>>)
                     \o EntriesOfValues(c, base, c.raw)
         IN  IF c.schema # "absent" /\ ~JSONValid(c)
             THEN [out |-> head, err |-> Err("MalformedSchema", SchemafileName)]
             ELSE LET own == head
                             \o (IF c.schema # "absent"
                                 THEN <<Entry(Join(base, SchemafileName), SchemaData(c),
                                              0, TRUE)>>
                                 ELSE <<>>)
                             \o EntriesOfFiles(c, base, c.templates)
                             \o EntriesOfFiles(c, base, c.files)
                      below == BuiltDependencies(Dependencies(c), Join(base, ChartsDir))
                  IN  [out |-> own \o below.out, err |-> below.err]

BuiltDependencies(deps, prefix) ==
    IF deps = <<>> THEN [out |-> <<>>, err |-> NoErr]
    ELSE LET first == BuiltEntries(Head(deps), prefix)
         IN  IF first.err # NoErr THEN first
             ELSE LET rest == BuiltDependencies(Tail(deps), prefix)
                  IN  [out |-> first.out \o rest.out, err |-> rest.err]

(***************************************************************************)
(* Save.                                                                   *)
(***************************************************************************)
Rest == <<nm, vres, clock, pool, dirs, callsLeft, hist, kw>>

\* c.Validate(): the chart's own check of the chart it is called on (not of
\* its dependencies).  It rejects a name that is not a single path segment,
\* as validateName does, and a chart that is structurally invalid.
Validate(c) ==
    IF Base(ChartName(c)) # ChartName(c) THEN ErrInvalidChartName(ChartName(c))
    ELSE IF ~c.valid THEN Err("ValidationFailure", ChartName(c))
         ELSE NoErr

\* an archive named without the version
ArchivePathUnversioned(c, outDir) == Join(outDir, ChartName(c) \o <<".tgz">>)

\* fmt.Sprintf("%s-%s.tgz", c.Name(), c.Metadata.Version) under outDir
ArchivePath(c, outDir) ==
    Join(outDir, ChartName(c) \o <<"-">> \o c.version \o <<".tgz">>)

\* Save returns (path, err) before it has opened the file
SaveReturnsEarly(p, path, err, ev) ==
    proc' = [proc EXCEPT ![p].spath = path, ![p].serr = err, ![p].pc = "sv_ret",
                         ![p].log = Logged(p, ev)]

SaveValidate(p) ==
    /\ proc[p].pc = "sv_validate"
    /\ LET err == Validate(proc[p].sc)
       IN  IF err # NoErr
           THEN SaveReturnsEarly(p, <<>>, Wrap(<<"chart validation">>, err),
                                 Ev("invalid", ChartName(proc[p].sc)))
           ELSE proc' = [proc EXCEPT ![p].pc = "sv_stat",
                                     ![p].log = Logged(p, Ev("validated", ChartName(proc[p].sc)))]
    /\ UNCHANGED <<fs>>
    /\ UNCHANGED Rest

\* os.Stat(dir) and what Save does with its result; ok = FALSE is a stat
\* that fails for a reason of the environment (a directory that cannot be
\* searched, an input/output error), which is not "does not exist"
SaveStat(p) ==
    /\ proc[p].pc = "sv_stat"
    /\ \E ok \in BOOLEAN :
       LET filename == ArchivePath(proc[p].sc, proc[p].soutDir)
           dir == Dir(filename)
           stat == IF ok THEN Stat(fs, dir) ELSE "ENOTDIR"
       IN  IF stat = "ENOENT"
           THEN proc' = [proc EXCEPT ![p].filename = filename, ![p].pc = "sv_mkdir"]
           ELSE IF stat = "ENOTDIR"
                THEN proc' = [proc EXCEPT ![p].filename = filename, ![p].spath = <<>>,
                                  ![p].serr = Wrap(<<"stat">> \o dir, Err("FilesystemFailure", dir)),
                                  ![p].pc = "sv_ret",
                                  ![p].log = Logged(p, Ev("statfail", dir))]
                ELSE IF stat = "file"
                     THEN proc' = [proc EXCEPT ![p].filename = filename, ![p].spath = <<>>,
                                       ![p].serr = Err("DestinationConflict", dir),
                                       ![p].pc = "sv_ret",
                                       ![p].log = Logged(p, Ev("conflict", dir))]
                     ELSE proc' = [proc EXCEPT ![p].filename = filename,
                                               ![p].pc = "sv_create"]
    /\ UNCHANGED <<fs>>
    /\ UNCHANGED Rest

SaveMkdirAll(p) ==
    /\ proc[p].pc = "sv_mkdir"
    /\ LET dir == Dir(proc[p].filename)
       IN  \E ok \in BOOLEAN :
              IF ok /\ CanMkdirAll(fs, dir)
              THEN /\ fs' = MkdirAll(fs, dir)
                   /\ proc' = [proc EXCEPT ![p].pc = "sv_create",
                                           ![p].log = Logged(p, Ev("mkdir", dir))]
              ELSE /\ \E g \in MkdirAllFailed(fs, dir) : fs' = g
                   /\ SaveReturnsEarly(p, <<>>, Err("FilesystemFailure", dir),
                                       Ev("mkdirfail", dir))
    /\ UNCHANGED Rest

\* os.Create, then the gzip and the tar writer around the file: a file
\* that is there is truncated (it stays the same file for those that have
\* it open), a file that is not there is made
SaveCreate(p) ==
    /\ proc[p].pc = "sv_create"
    /\ LET filename == proc[p].filename
       IN  \E ok \in BOOLEAN :
              IF ok /\ CanCreate(fs, filename)
              THEN LET base == Truncate(IF IsFileAt(fs, filename)
                                        THEN fs[filename].entries ELSE <<>>)
                   IN
                   /\ fs' = Put(fs, filename, FileNode(base, <<>>, FALSE))
                   /\ proc' = Rivalled(p, TRUE, filename,
                                  [proc EXCEPT ![p].pc = "tar", ![p].rollback = FALSE,
                                               ![p].stack = <<Frame(proc[p].sc, <<>>)>>,
                                               ![p].stream = <<>>, ![p].closes = <<>>,
                                               ![p].fd = "open", ![p].rivals = {},
                                               ![p].base = base,
                                               ![p].log = Logged(p, Ev("create", filename))])
              ELSE /\ fs' = fs
                   /\ SaveReturnsEarly(p, <<>>, Err("FilesystemFailure", filename),
                                       Ev("createfail", filename))
    /\ UNCHANGED Rest

\* whether Save asks for the rollback, given what writeTarContents returned
RollbackWanted(err) == err # NoErr

\* the path Save returns, given what writeTarContents returned
ReturnedPath(filename, err) == filename

\* writeTarContents has returned: Save sets its results
SaveBuilt(p) ==
    /\ proc[p].pc = "sv_after"
    /\ proc' = [proc EXCEPT ![p].rollback = RollbackWanted(proc[p].werr),
                            ![p].spath = ReturnedPath(proc[p].filename, proc[p].werr),
                            ![p].serr = proc[p].werr,
                            ![p].pc = "sv_close_tar"]
    /\ UNCHANGED <<fs>>
    /\ UNCHANGED Rest

\* the tar writer cannot close cleanly over an entry left without its body
TarCloseable(out) == out = <<>> \/ out[Len(out)].whole

Closed(p, layer, ok) == Append(proc[p].closes, [layer |-> layer, ok |-> ok])

\* the deferred function, statement by statement; the results of the three
\* Close calls are dropped
SaveCloseTar(p) ==
    /\ proc[p].pc = "sv_close_tar"
    /\ \E ok \in BOOLEAN :
          proc' = [proc EXCEPT ![p].closes = Closed(p, "tar", ok /\ TarCloseable(proc[p].stream)),
                               ![p].pc = "sv_close_zip",
                               ![p].log = Logged(p, Ev("close", <<"tar">>))]
    /\ UNCHANGED <<fs>>
    /\ UNCHANGED Rest

\* a deferred function that hands a failed zipper.Close to the caller: the
\* error replaces the result of Save and the rollback is asked for
SaveCloseZipChecked(p) ==
    /\ proc[p].pc = "sv_close_zip"
    /\ \E ok \in BOOLEAN :
          LET closes == Closed(p, "gzip", ok)
              failed == ~ok /\ proc[p].serr = NoErr
          IN  /\ proc' = Rivalled(p, proc[p].fd = "open", proc[p].filename,
                             [proc EXCEPT ![p].closes = closes,
                                          ![p].pc = "sv_close_file",
                                          ![p].serr = IF failed
                                                      THEN Err("FilesystemFailure",
                                                               proc[p].filename)
                                                      ELSE @,
                                          ![p].rollback = IF failed THEN TRUE ELSE @,
                                          ![p].log = Logged(p, Ev("close", <<"gzip">>))])
              /\ \E node \in Written(p, proc[p].stream, Flushed(closes)) :
                    fs' = IF proc[p].fd = "open"
                          THEN Put(fs, proc[p].filename, node)
                          ELSE fs
    /\ UNCHANGED Rest

\* zipper.Close(): what the compression layer held back is written through
\* f; the archive in the file is finished when neither Close has failed
SaveCloseZip(p) ==
    /\ proc[p].pc = "sv_close_zip"
    /\ \E ok \in BOOLEAN :
          LET closes == Closed(p, "gzip", ok)
          IN  /\ proc' = Rivalled(p, proc[p].fd = "open", proc[p].filename,
                             [proc EXCEPT ![p].closes = closes,
                                          ![p].pc = "sv_close_file",
                                          ![p].log = Logged(p, Ev("close", <<"gzip">>))])
              /\ \E node \in Written(p, proc[p].stream, Flushed(closes)) :
                    fs' = IF proc[p].fd = "open"
                          THEN Put(fs, proc[p].filename, node)
                          ELSE fs
    /\ UNCHANGED Rest

\* f.Close(): f is closed; nothing is written and the file at its path is
\* left as it is, whether Close returns an error or not
SaveCloseFile(p) ==
    /\ proc[p].pc = "sv_close_file"
    /\ \E ok \in BOOLEAN :
          proc' = [proc EXCEPT ![p].closes = Closed(p, "file", ok),
                               ![p].pc = "sv_remove",
                               ![p].fd = "none", ![p].rivals = {},
                               ![p].log = Logged(p, Ev("close", <<"file">>))]
    /\ UNCHANGED <<fs>>
    /\ UNCHANGED Rest

\* a rollback that clears the directory of the archive (every regular file
\* in it) instead of the one file
RemoveSiblings(f, path) ==
    [q \in {r \in DOMAIN f : ~(f[r].kind = "file" /\ Dir(r) = Dir(path))} |-> f[q]]

\* os.Remove: a regular file or an empty directory is removed; anything
\* else is left (the error is dropped by the caller)
Remove(f, path) ==
    IF IsFileAt(f, path) THEN Del(f, path)
    ELSE IF /\ path \in DOMAIN f
            /\ ~IsImplicitDir(path)
            /\ f[path].kind = "dir"
            /\ \A q \in DOMAIN f : q = path \/ Dir(q) # path
         THEN Del(f, path)
         ELSE f

\* the callers after the filesystem has become g: a file that is open and
\* is no longer at its path stays open, unlinked
Unlinked(g, pr) ==
    [q \in Procs |->
        IF proc[q].fd = "open" /\ ~IsFileAt(g, proc[q].filename)
        THEN [pr[q] EXCEPT !.fd = "unlinked", !.rivals = {}]
        ELSE pr[q]]

\* the rollback: os.Remove(filename), whose result is dropped; ok = FALSE
\* is an os.Remove that the environment refuses
SaveRemove(p) ==
    /\ proc[p].pc = "sv_remove"
    /\ IF proc[p].rollback
       THEN \E ok \in BOOLEAN :
              LET g == IF ok THEN Remove(fs, proc[p].filename) ELSE fs
              IN  /\ fs' = g
                  /\ proc' = Unlinked(g,
                                [proc EXCEPT ![p].pc = "sv_ret",
                                             ![p].rm = IF g # fs THEN "ok" ELSE "failed",
                                             ![p].log = Logged(p, Ev("remove", proc[p].filename))])
       ELSE /\ fs' = fs
            /\ proc' = [proc EXCEPT ![p].pc = "sv_ret"]
    /\ UNCHANGED Rest

\* the paths of the entries of a stream
EntryNames(out) == [k \in 1..Len(out) |-> out[k].name]

\* the record of a call that returns: the call, what it returned and, for
\* Save, the paths of the entries it has given to the archive, in order
Result(p, path, err) ==
    [op |-> proc[p].op, c |-> proc[p].c, dest |-> proc[p].dest,
     path |-> path, err |-> err,
     names |-> IF proc[p].op = "Save" THEN EntryNames(proc[p].stream) ELSE <<>>]

\* Save called by the caller returns to it
SaveReturn(p) ==
    /\ proc[p].pc = "sv_ret"
    /\ proc[p].op = "Save"
    /\ proc' = [proc EXCEPT ![p].pc = "done",
                            ![p].ret = [op |-> "Save", path |-> proc[p].spath,
                                        err |-> proc[p].serr]]
    /\ hist' = Append(hist, Result(p, proc[p].spath, proc[p].serr))
    /\ UNCHANGED <<kw, nm, vres, fs, clock, pool, dirs, callsLeft>>

(***************************************************************************)
(* SaveDir.                                                                *)
(***************************************************************************)
SaveDirReturns(p, err, ev) ==
    proc' = [proc EXCEPT ![p].pc = "sd_ret",
                         ![p].ret = [op |-> "SaveDir", path |-> <<>>, err |-> err],
                         ![p].log = Logged(p, ev)]

SaveDirValidateName(p) ==
    /\ proc[p].pc = "sd_name"
    /\ LET err == validateName(ChartName(proc[p].c))
       IN  IF err # NoErr
           THEN SaveDirReturns(p, err, Ev("badname", ChartName(proc[p].c)))
           ELSE proc' = [proc EXCEPT ![p].pc = "sd_stat",
                                     ![p].log = Logged(p, Ev("nameok", ChartName(proc[p].c)))]
    /\ UNCHANGED <<fs>>
    /\ UNCHANGED Rest

\* os.Stat(outdir): SaveDir returns only when the stat succeeds and finds
\* something that is not a directory; a stat that fails (ok = FALSE, or
\* nothing there) is followed by os.MkdirAll
SaveDirStat(p) ==
    /\ proc[p].pc = "sd_stat"
    /\ \E ok \in BOOLEAN :
       LET outdir == Join(proc[p].dest, ChartName(proc[p].c))
       IN  IF ok /\ Stat(fs, outdir) = "file"
           THEN proc' = [proc EXCEPT ![p].outdir = outdir, ![p].pc = "sd_ret",
                             ![p].ret = [op |-> "SaveDir", path |-> <<>>,
                                         err |-> Err("DestinationConflict", outdir)],
                             ![p].log = Logged(p, Ev("conflict", outdir))]
           ELSE proc' = [proc EXCEPT ![p].outdir = outdir, ![p].pc = "sd_mkdir"]
    /\ UNCHANGED <<fs>>
    /\ UNCHANGED Rest

SaveDirMkdirAll(p) ==
    /\ proc[p].pc = "sd_mkdir"
    /\ LET outdir == proc[p].outdir
       IN  \E ok \in BOOLEAN :
              IF ok /\ CanMkdirAll(fs, outdir)
              THEN /\ fs' = MkdirAll(fs, outdir)
                   /\ proc' = [proc EXCEPT ![p].pc = "sd_meta",
                                           ![p].log = Logged(p, Ev("mkdir", outdir))]
              ELSE /\ \E g \in MkdirAllFailed(fs, outdir) : fs' = g
                   /\ SaveDirReturns(p, Err("FilesystemFailure", outdir),
                                     Ev("mkdirfail", outdir))
    /\ UNCHANGED Rest

\* os.WriteFile: "openfail" leaves the path as it was, "writefail" leaves
\* the file truncated
WriteFile(f, name, content, outcome) ==
    IF outcome = "openfail" \/ ~CanCreate(f, name)
    THEN [fs |-> f, err |-> Err("FilesystemFailure", name)]
    ELSE IF outcome = "writefail"
         THEN [fs |-> Put(f, name, EmptyFile), err |-> Err("FilesystemFailure", name)]
         ELSE [fs |-> Put(f, name, FileNode(<<>>, content, FALSE)), err |-> NoErr]

\* writeFile: the directory of the file is made first; g is what the
\* os.MkdirAll leaves when it fails
writeFile(f, name, content, outcome, g) ==
    IF outcome = "mkdirfail" \/ ~CanMkdirAll(f, Dir(name))
    THEN [fs |-> g, err |-> Err("FilesystemFailure", Dir(name))]
    ELSE WriteFile(MkdirAll(f, Dir(name)), name, content, outcome)

\* SaveChartfile: the metadata is marshalled and written
SaveChartfile(f, name, c, outcome) ==
    IF outcome = "marshalfail"
    THEN [fs |-> f, err |-> Err("MarshalFailure", ChartfileName)]
    ELSE WriteFile(f, name, MetadataYAML(c), outcome)

FileOutcomes == {"ok", "mkdirfail", "openfail", "writefail"}

\* one write step of SaveDir: r is what the write returned
SaveDirWrote(p, r, name, pc, i) ==
    /\ fs' = r.fs
    /\ LET wrote == r.err = NoErr \/ r.fs # fs
       IN  IF r.err # NoErr
           THEN proc' = Rivalled(p, wrote, name,
                                 [proc EXCEPT ![p].pc = "sd_ret",
                                              ![p].ret = [op |-> "SaveDir", path |-> <<>>,
                                                          err |-> r.err],
                                              ![p].log = Logged(p, Ev("writefail", name))])
           ELSE proc' = Rivalled(p, wrote, name,
                                 [proc EXCEPT ![p].pc = pc, ![p].i = i,
                                              ![p].log = Logged(p, Ev("write", name))])

SaveDirChartfile(p) ==
    /\ proc[p].pc = "sd_meta"
    /\ LET name == Join(proc[p].outdir, ChartfileName)
       IN  \E outcome \in {"ok", "marshalfail", "openfail", "writefail"} :
              SaveDirWrote(p, SaveChartfile(fs, name, proc[p].c, outcome), name, "sd_raw", 1)
    /\ UNCHANGED Rest

SaveDirValues(p) ==
    /\ proc[p].pc = "sd_raw"
    /\ LET c == proc[p].c
           i == proc[p].i
           vf == Join(proc[p].outdir, ValuesfileName)
       IN  IF i > Len(c.raw)
           THEN /\ proc' = [proc EXCEPT ![p].pc = "sd_schema"]
                /\ fs' = fs
           ELSE IF c.raw[i] = ValuesfileName
                THEN \E outcome \in FileOutcomes, g \in MkdirAllFailed(fs, Dir(vf)) :
                        SaveDirWrote(p, writeFile(fs, vf, FileData(c, c.raw[i]), outcome, g),
                                     vf, "sd_raw", i + 1)
                ELSE /\ proc' = [proc EXCEPT ![p].i = i + 1]
                     /\ fs' = fs
    /\ UNCHANGED Rest

SaveDirSchema(p) ==
    /\ proc[p].pc = "sd_schema"
    /\ LET c == proc[p].c
           filename == Join(proc[p].outdir, SchemafileName)
       IN  IF c.schema # "absent"
           THEN \E outcome \in FileOutcomes, g \in MkdirAllFailed(fs, Dir(filename)) :
                   SaveDirWrote(p, writeFile(fs, filename, SchemaData(c), outcome, g),
                                filename, "sd_files", 1)
           ELSE /\ proc' = [proc EXCEPT ![p].pc = "sd_files", ![p].i = 1]
                /\ fs' = fs
    /\ UNCHANGED Rest

\* the loop over c.Templates and then c.Files
SaveDirFiles(p) ==
    /\ proc[p].pc = "sd_files"
    /\ LET c == proc[p].c
           o == c.templates \o c.files
           i == proc[p].i
       IN  IF i > Len(o)
           THEN /\ proc' = [proc EXCEPT ![p].pc = "sd_deps", ![p].i = 1]
                /\ fs' = fs
           ELSE LET n == Join(proc[p].outdir, o[i])
                IN  \E outcome \in FileOutcomes, g \in MkdirAllFailed(fs, Dir(n)) :
                       SaveDirWrote(p, writeFile(fs, n, FileData(c, o[i]), outcome, g),
                                    n, "sd_files", i + 1)
    /\ UNCHANGED Rest

\* the loop over the dependencies: Save(dep, base) for the next one, or the
\* return of SaveDir when there is none left
SaveDirDependencies(p) ==
    /\ proc[p].pc = "sd_deps"
    /\ LET deps == Dependencies(proc[p].c)
           base == Join(proc[p].outdir, ChartsDir)
           i == proc[p].i
       IN  IF i <= Len(deps)
           THEN proc' = [proc EXCEPT ![p].pc = "sv_validate", ![p].sc = deps[i],
                                     ![p].soutDir = base, ![p].filename = <<>>,
                                     ![p].rollback = FALSE, ![p].werr = NoErr,
                                     ![p].stream = <<>>, ![p].closes = <<>>,
                                     ![p].fd = "none", ![p].rivals = {},
                                     ![p].rm = "none",
                                     ![p].spath = <<>>, ![p].serr = NoErr]
           ELSE proc' = [proc EXCEPT ![p].pc = "sd_ret",
                                     ![p].ret = [op |-> "SaveDir", path |-> <<>>,
                                                 err |-> NoErr]]
    /\ UNCHANGED <<fs>>
    /\ UNCHANGED Rest

\* Save called by SaveDir returns to it
SaveDirSaved(p) ==
    /\ proc[p].pc = "sv_ret"
    /\ proc[p].op = "SaveDir"
    /\ LET dep == proc[p].sc
       IN  IF proc[p].serr # NoErr
           THEN SaveDirReturns(p, Wrap(<<"saving">> \o ChartFullPath(proc[p].c, dep),
                                       proc[p].serr),
                               Ev("depfail", ChartName(dep)))
           ELSE proc' = [proc EXCEPT ![p].pc = "sd_deps", ![p].i = proc[p].i + 1]
    /\ UNCHANGED <<fs>>
    /\ UNCHANGED Rest

\* SaveDir returns to the caller
SaveDirReturn(p) ==
    /\ proc[p].pc = "sd_ret"
    /\ proc' = [proc EXCEPT ![p].pc = "done"]
    /\ hist' = Append(hist, Result(p, <<>>, proc[p].ret.err))
    /\ UNCHANGED <<kw, nm, vres, fs, clock, pool, dirs, callsLeft>>

(***************************************************************************)
(* The callers.                                                            *)
(***************************************************************************)
CanCall(p) == proc[p].pc \in {"idle", "done"} /\ callsLeft > 0

CallSave(p) ==
    /\ CanCall(p)
    /\ \E c \in pool[p], outDir \in dirs :
          proc' = [proc EXCEPT ![p] = [IdleProc EXCEPT
                       !.pc = "sv_validate", !.op = "Save", !.c = c, !.dest = outDir,
                       !.sc = c, !.soutDir = outDir,
                       !.fs0 = fs]]
    /\ clock' = clock
    /\ callsLeft' = callsLeft - 1
    /\ UNCHANGED <<kw, nm, vres, fs, pool, dirs, hist>>

CallSaveDir(p) ==
    /\ CanCall(p)
    /\ \E c \in pool[p], dest \in dirs :
          proc' = [proc EXCEPT ![p] = [IdleProc EXCEPT
                       !.pc = "sd_name", !.op = "SaveDir", !.c = c, !.dest = dest,
                       !.fs0 = fs]]
    /\ clock' = clock
    /\ callsLeft' = callsLeft - 1
    /\ UNCHANGED <<kw, nm, vres, fs, pool, dirs, hist>>

Step(p) ==
    \/ CallSave(p)
    \/ SaveValidate(p)
    \/ SaveStat(p)
    \/ SaveMkdirAll(p)
    \/ SaveCreate(p)
    \/ TarValidateName(p)
    \/ TarChartfile(p)
    \/ TarLock(p)
    \/ TarValues(p)
    \/ TarSchema(p)
    \/ TarTemplates(p)
    \/ TarFiles(p)
    \/ TarDependencies(p)
    \/ SaveBuilt(p)
    \/ SaveCloseTar(p)
    \/ SaveCloseZip(p)
    \/ SaveCloseFile(p)
    \/ SaveRemove(p)
    \/ SaveReturn(p)
    \/ CallSaveDir(p)
    \/ SaveDirValidateName(p)
    \/ SaveDirStat(p)
    \/ SaveDirMkdirAll(p)
    \/ SaveDirChartfile(p)
    \/ SaveDirValues(p)
    \/ SaveDirSchema(p)
    \/ SaveDirFiles(p)
    \/ SaveDirDependencies(p)
    \/ SaveDirSaved(p)
    \/ SaveDirReturn(p)

(***************************************************************************)
(* The charts the callers pass and the filesystems they start from.        *)
(***************************************************************************)
TemplateT == <<"templates", "/", "t.yaml">>
FileF == <<"f.txt">>
OtherRaw == <<"README.md">>

NameA == <<"a">>
NameD == <<"d">>
NameE == <<"e">>
NameEvil == <<".", ".", "/", "e">>

\* a chart with a values file, a schema, one template and one file
Full(name, rev, deps) ==
    MkChart(name, rev, TRUE, FALSE, <<ValuesfileName>>, "valid",
            <<TemplateT>>, <<FileF>>, deps)

\* a chart with its metadata only
Bare(name, rev, deps) ==
    MkChart(name, rev, TRUE, FALSE, <<>>, "absent", <<>>, <<>>, deps)

BadSchema(name) ==
    MkChart(name, "r1", TRUE, FALSE, <<ValuesfileName>>, "bad", <<TemplateT>>, <<>>, <<>>)

Charts ==
    { Full(NameA, "r1", <<>>),
      \* a lock, raw files that are not the values file, other contents
      MkChart(NameA, "r2", TRUE, TRUE, <<OtherRaw>>, "absent", <<>>, <<FileF, TemplateT>>, <<>>),
      \* the values file twice among the raw files
      MkChart(NameA, "r1", TRUE, FALSE, <<ValuesfileName, OtherRaw, ValuesfileName>>,
              "absent", <<>>, <<>>, <<>>),
      BadSchema(NameA),
      \* rejected by Validate
      MkChart(NameA, "r1", FALSE, FALSE, <<>>, "absent", <<>>, <<>>, <<>>),
      \* dependencies, two levels deep
      Full(NameA, "r1", <<Full(NameD, "r1", <<Bare(NameE, "r1", <<>>)>>),
                          Bare(NameE, "r2", <<>>)>>),
      \* a malformed schema two levels down
      Bare(NameA, "r1", <<Bare(NameE, "r1", <<>>),
                          Bare(NameD, "r1", <<BadSchema(NameE)>>)>>),
      \* names that encode a path
      Full(NameEvil, "r1", <<>>),
      Bare(NameA, "r1", <<Bare(NameD, "r1", <<>>), Full(NameEvil, "r1", <<>>)>>),
      Bare(DotDot, "r1", <<>>),
      Bare(Dot, "r1", <<>>),
      Bare(<<Separator>>, "r1", <<>>),
      Bare(NameA, "r1", <<Bare(DotDot, "r2", <<>>)>>),
      \* a file where SaveDir puts the dependencies
      MkChart(NameA, "r1", TRUE, FALSE, <<>>, "absent", <<>>, <<ChartsDir>>,
              <<Bare(NameD, "r1", <<>>)>>) }

OldFile == FileNode(<<>>, <<"old">>, FALSE)

OutDir == <<"out">>

\* the directories the callers name
Dirs == {OutDir, <<"out", "/", "sub">>}

\* the directory exists
FSWithDir == Put(EmptyFS, OutDir, DirNode)

\* a regular file where the directory should be
FSWithFile == Put(EmptyFS, OutDir, OldFile)

\* regular files where the chart directory and the archive should be
FSWithOld ==
    Put(Put(FSWithDir, Join(OutDir, NameA), OldFile),
        ArchivePath(Full(NameA, "r1", <<>>), OutDir), OldFile)

InitialFS == {EmptyFS, FSWithDir, FSWithFile, FSWithOld}

Init ==
    /\ nm = <<>>
    /\ vres = Err("none", <<>>)
    /\ fs \in InitialFS
    /\ proc = [p \in Procs |-> IdleProc]
    /\ clock = 0
    /\ pool = [p \in Procs |-> Charts]
    /\ dirs = Dirs
    /\ callsLeft = 1
    /\ hist = <<>>
    /\ kw = NotWaiting

Next == Step(1)

Spec == Init /\ [][Next]_vars

(***************************************************************************)
(* validateName on its own, over every name up to MaxNameLen atoms.        *)
(***************************************************************************)
InitName ==
    /\ nm \in Names
    /\ vres = Err("none", <<>>)
    /\ fs = EmptyFS
    /\ proc = [p \in Procs |-> IdleProc]
    /\ clock = 0
    /\ pool = [p \in Procs |-> {}]
    /\ dirs = {}
    /\ callsLeft = 0
    /\ hist = <<>>
    /\ kw = NotWaiting

CallValidateName ==
    /\ vres = Err("none", <<>>)
    /\ vres' = validateName(nm)
    /\ UNCHANGED <<kw, nm, fs, proc, clock, pool, dirs, callsLeft, hist>>

NextName == CallValidateName

SpecName == InitName /\ [][NextName]_vars

(***************************************************************************)
(* Properties.                                                             *)
(***************************************************************************)
LogHas(p, e) == \E k \in 1..Len(proc[p].log) : proc[p].log[k] = e

LogHasEv(p, ev) == \E k \in 1..Len(proc[p].log) : proc[p].log[k].ev = ev

\* Save has run its deferred function and is about to hand its results over
SaveReturning(p) == proc[p].pc = "sv_ret"

Quiescent == \A p \in Procs : proc[p].pc \in {"idle", "done"}

\* C1: for every name n, validateName succeeds if and only if n contains no
\* path separator and is neither "." nor ".."; otherwise it fails with
\* InvalidName carrying n.
C1_NameIsPlainSegment ==
    vres # Err("none", <<>>) =>
        IF ~HasSeparator(nm) /\ nm # Dot /\ nm # DotDot
        THEN vres = NoErr
        ELSE vres = ErrInvalidChartName(nm)

\* C2: a Save whose archive build failed, at any step and at any nesting
\* depth, returns with no file at its archive path; and after any sequence of
\* failing Save calls no file made by them is left (every regular file is one
\* that was there before the calls).
C2_FailedBuildLeavesNoFile ==
    /\ \A p \in Procs :
          (SaveReturning(p) /\ proc[p].werr # NoErr) => ~Exists(fs, proc[p].filename)
    /\ (/\ Quiescent
        /\ \A k \in 1..Len(hist) : hist[k].op = "Save" /\ hist[k].err # NoErr)
       => \A q \in DOMAIN fs : fs[q].kind = "file" => fs[q] = OldFile

\* C3: whenever Save returns an error, the path it returns is empty.
C3_ErrorMeansEmptyPath ==
    \A p \in Procs : (SaveReturning(p) /\ proc[p].serr # NoErr) => proc[p].spath = <<>>

StartsWith(s, pre) == Len(s) >= Len(pre) /\ SubSeq(s, 1, Len(pre)) = pre

\* a name that encodes a path: it has a separator, or is "." or ".."
EncodesPath(name) == HasSeparator(name) \/ name = Dot \/ name = DotDot

\* C4: for a chart whose name encodes a path, Save and SaveDir fail with
\* InvalidName, and no step of the call changes the filesystem.
C4_PathNameFailsBeforeMutation ==
    \A p \in Procs :
       (proc[p].op # "none" /\ EncodesPath(ChartName(proc[p].c))) =>
          /\ fs = proc[p].fs0
          /\ proc[p].pc = "done" =>
                /\ proc[p].ret.err.kind = "InvalidName"
                /\ proc[p].ret.err.arg = ChartName(proc[p].c)

\* the name of the archive of a chart called name
ArchiveBase(name) == name \o <<"-", "1", ".tgz">>

\* C5: in every call, for every chart of the tree, the name check of the
\* chart has passed before any output for the chart is produced: before an
\* archive named after it is created, before an entry of it is appended,
\* and before SaveDir makes the directory named after it or writes into it.
C5_NameCheckedBeforeOutput ==
    \A p \in Procs :
       LET log == proc[p].log
       IN  \A k \in 1..Len(log) :
              /\ log[k].ev = "create" =>
                    \E j \in 1..(k - 1) :
                       /\ log[j].ev = "validated"
                       /\ Join(Dir(log[k].arg), ArchiveBase(log[j].arg)) = log[k].arg
              /\ log[k].ev \in {"entry", "entryfail"} =>
                    \E j \in 1..(k - 1) : log[j] = Ev("nameok", log[k].of)
              /\ (proc[p].op = "SaveDir" /\ log[k].ev \in {"mkdir", "write", "writefail"}) =>
                    log[1] = Ev("nameok", ChartName(proc[p].c))

\* SaveDir has made the archive of a dependency and appended to it an entry
\* of a dependency of that dependency
C5_Witness ==
    /\ proc[1].op = "SaveDir"
    /\ \E k \in 1..Len(proc[1].log) :
          /\ proc[1].log[k].ev = "entry"
          /\ proc[1].log[k].of = <<"d", "/", "charts", "/", "e">>

IsPrefix(s, t) == Len(s) <= Len(t) /\ SubSeq(t, 1, Len(s)) = s

\* the paths base/f for the files f of a list
RECURSIVE PathsUnder(_, _)
PathsUnder(base, names) ==
    IF names = <<>> THEN <<>>
    ELSE <<ToSlash(Join(base, Head(names)))>> \o PathsUnder(base, Tail(names))

\* the entry paths C6 states for a chart and a prefix: each once, in the
\* stated order, the dependencies last
RECURSIVE ClaimedEntries(_, _)
RECURSIVE ClaimedDependencies(_, _)
ClaimedEntries(c, prefix) ==
    LET base == Join(prefix, ChartName(c))
    IN  <<ToSlash(Join(base, ChartfileName))>>
        \o (IF c.lock THEN <<ToSlash(Join(base, LockfileName))>> ELSE <<>>)
        \o (IF \E k \in 1..Len(c.raw) : c.raw[k] = ValuesfileName
            THEN <<ToSlash(Join(base, ValuesfileName))>> ELSE <<>>)
        \o (IF c.schema # "absent" THEN <<ToSlash(Join(base, SchemafileName))>> ELSE <<>>)
        \o PathsUnder(base, c.templates)
        \o PathsUnder(base, c.files)
        \o ClaimedDependencies(c.deps, Join(base, ChartsDir))

ClaimedDependencies(deps, prefix) ==
    IF deps = <<>> THEN <<>>
    ELSE ClaimedEntries(Head(deps), prefix) \o ClaimedDependencies(Tail(deps), prefix)

\* C6: the entries of a build appear in the stated order, each once: at
\* every point the stream is a beginning of the stated sequence, and it is
\* the whole of it when writeTarContents returns without error.
C6_EntriesInStatedOrder ==
    \A p \in Procs :
       LET names == EntryNames(proc[p].stream)
           claimed == ClaimedEntries(proc[p].sc, <<>>)
       IN  /\ IsPrefix(names, claimed)
           /\ (proc[p].pc = "sv_after" /\ proc[p].werr = NoErr) => names = claimed

\* C7: in a Save call for a chart named R every entry appended so far has a
\* path under R/, every entry of a dependency d of a chart with base B has a
\* path under B/charts/d/, and one output file is created for the whole tree.
C7_OneTopLevelDirectory ==
    \A p \in Procs :
       proc[p].op = "Save" =>
          LET log == proc[p].log
              R == ChartName(proc[p].c)
          IN  /\ \A k \in 1..Len(proc[p].stream) :
                    StartsWith(proc[p].stream[k].name, R \o <<"/">>)
              /\ \A k \in 1..Len(log) :
                    log[k].ev = "entry" => StartsWith(log[k].arg, log[k].of \o <<"/">>)
              /\ Cardinality({k \in 1..Len(log) : log[k].ev = "create"}) <= 1
              /\ proc[p].stream # <<>> =>
                    Cardinality({k \in 1..Len(log) : log[k].ev = "create"}) = 1

\* the directory dest/N/charts of a SaveDir call
ChartsDirOf(p) == Clean(Under(Under(proc[p].dest, ChartName(proc[p].c)), ChartsDir))

SaveDirSucceeded(p) ==
    /\ proc[p].op = "SaveDir"
    /\ proc[p].pc = "done"
    /\ proc[p].ret.err = NoErr

\* C8: after a successful SaveDir of a chart named N into dest there is,
\* for every direct dependency d with version v, a file
\* dest/N/charts/d-v.tgz whose entries are those Save(d) produces (the
\* entries of a build of d from the empty prefix, d's own dependencies
\* among them), and nothing below dest/N/charts is a directory.  Every
\* archive a Save has returned without error, called on its own or by
\* SaveDir, holds the entries of that build (an entry is compared without
\* its time, which is the clock's at the moment it was written).
C8_DependenciesAsArchives ==
    \A p \in Procs :
       /\ (SaveReturning(p) /\ proc[p].serr = NoErr) =>
             /\ IsFileAt(fs, proc[p].filename)
             /\ BuiltEntries(proc[p].sc, <<>>).err = NoErr
             /\ Untimed(fs[proc[p].filename].entries) = BuiltEntries(proc[p].sc, <<>>).out
       /\ SaveDirSucceeded(p) =>
             LET deps == Dependencies(proc[p].c)
             IN  /\ \A i \in 1..Len(deps) :
                       LET path == Clean(Under(ChartsDirOf(p), ArchiveBase(ChartName(deps[i]))))
                           built == BuiltEntries(deps[i], <<>>)
                       IN  /\ IsFileAt(fs, path)
                           /\ built.err = NoErr
                           /\ Untimed(fs[path].entries) = built.out
                 /\ \A q \in DOMAIN fs :
                       StartsWith(q, ChartsDirOf(p) \o <<Separator>>) => fs[q].kind = "file"

C8_Witness ==
    /\ SaveDirSucceeded(1)
    /\ Len(Dependencies(proc[1].c)) = 2
    /\ Len(Dependencies(Dependencies(proc[1].c)[1])) = 1
    /\ IsFileAt(fs, <<"out", "/", "a", "/", "charts", "/", "d", "-", "1", ".tgz">>)
    /\ \E k \in 1..Len(fs[<<"out", "/", "a", "/", "charts", "/", "d", "-", "1", ".tgz">>].entries) :
          /\ fs[<<"out", "/", "a", "/", "charts", "/", "d", "-", "1", ".tgz">>].entries[k].name
                = <<"d", "/", "charts", "/", "e", "/", "Chart.yaml">>
          /\ fs[<<"out", "/", "a", "/", "charts", "/", "d", "-", "1", ".tgz">>].entries[k].mtime
                # fs[<<"out", "/", "a", "/", "charts", "/", "d", "-", "1", ".tgz">>].entries[1].mtime

\* a chart of the tree has a schema that is present and malformed
RECURSIVE HasMalformedSchema(_)
HasMalformedSchema(c) ==
    \/ c.schema = "bad"
    \/ \E i \in 1..Len(c.deps) : HasMalformedSchema(c.deps[i])

\* Save has opened its file and not yet returned
Building(p) ==
    proc[p].pc \in {"tar", "sv_after", "sv_close_tar", "sv_close_zip",
                    "sv_close_file", "sv_remove"}

\* the entries that precede the first malformed schema of the tree
BeforeSchema(p) == EntryNames(BuiltEntries(proc[p].sc, <<>>).out)

\* C9: if a chart of the tree passed to Save has a schema that is
\* present and malformed, Save fails with MalformedSchema, neither that
\* schema entry nor an entry after it is appended, and no output file is on
\* disk when Save returns.
C9_MalformedSchemaFailsSave ==
    \A p \in Procs :
       HasMalformedSchema(proc[p].sc) =>
          /\ (Building(p) \/ SaveReturning(p)) =>
                IsPrefix(EntryNames(proc[p].stream), BeforeSchema(p))
          /\ SaveReturning(p) =>
                /\ proc[p].serr.kind = "MalformedSchema"
                /\ ~Exists(fs, ArchivePath(proc[p].sc, proc[p].soutDir))

\* C10 as stated: if a file that is not a directory occupies the output
\* directory given to Save, Save fails with DestinationConflict, creates no
\* archive and leaves the occupant as it is; SaveDir fails and writes
\* nothing when such a file occupies dest/name.
C10_OccupiedDestinationConflicts ==
    \A p \in Procs :
       /\ (proc[p].op = "Save" /\ IsFileAt(proc[p].fs0, Clean(proc[p].dest))) =>
             /\ fs = proc[p].fs0
             /\ proc[p].pc = "done" => proc[p].ret.err.kind = "DestinationConflict"
       /\ (/\ proc[p].op = "SaveDir"
           /\ IsFileAt(proc[p].fs0, Clean(Under(proc[p].dest, ChartName(proc[p].c))))) =>
             /\ fs = proc[p].fs0
             /\ proc[p].pc = "done" => proc[p].ret.err # NoErr

\* C10 as amended: Save fails: with the error of Validate when the chart
\* does not pass it, with the error of os.Stat when the look at the output
\* directory itself fails, and with DestinationConflict otherwise.
C10_OccupiedDestinationFails ==
    \A p \in Procs :
       /\ (proc[p].op = "Save" /\ IsFileAt(proc[p].fs0, Clean(proc[p].dest))) =>
             /\ fs = proc[p].fs0
             /\ proc[p].pc = "done" =>
                   IF LogHasEv(p, "statfail")
                   THEN /\ LogHasEv(p, "validated")
                        /\ proc[p].ret.err.kind = "FilesystemFailure"
                        /\ proc[p].ret.path = <<>>
                   ELSE IF LogHasEv(p, "validated")
                   THEN /\ LogHasEv(p, "conflict")
                        /\ proc[p].ret.err = Err("DestinationConflict", Clean(proc[p].dest))
                   ELSE /\ LogHasEv(p, "invalid")
                        /\ proc[p].ret.err.kind \in {"InvalidName", "ValidationFailure"}
       /\ (/\ proc[p].op = "SaveDir"
           /\ IsFileAt(proc[p].fs0, Clean(Under(proc[p].dest, ChartName(proc[p].c))))) =>
             /\ fs = proc[p].fs0
             /\ proc[p].pc = "done" => proc[p].ret.err # NoErr

C10_Witness ==
    /\ proc[1].op = "Save"
    /\ proc[1].pc = "done"
    /\ proc[1].dest = OutDir
    /\ fs = FSWithFile
    /\ proc[1].ret.err.kind = "DestinationConflict"
    /\ proc[1].ret.path = <<>>

\* C11: when Save returns without error the returned path is
\* outDir/name-version.tgz, a file exists at that path, and the file holds
\* the complete entry sequence of the chart tree with the archive layer, the
\* compression layer and the file closed over it (the archive is finished).
C11_SuccessMeansCompleteArchive ==
    \A p \in Procs :
       (SaveReturning(p) /\ proc[p].serr = NoErr) =>
          /\ proc[p].spath = Clean(Under(proc[p].soutDir, ArchiveBase(ChartName(proc[p].sc))))
          /\ IsFileAt(fs, proc[p].spath)
          /\ Untimed(fs[proc[p].spath].entries) = BuiltEntries(proc[p].sc, <<>>).out
          /\ Len(proc[p].closes) = 3
          /\ fs[proc[p].spath].sealed

\* an error that the environment decides (a write, a creation, a stat or a
\* marshalling that fails), not the chart tree
EnvironmentFailure(err) == err.kind \in {"FilesystemFailure", "MarshalFailure"}

(***************************************************************************)
(* Repeated calls of SaveDir on one chart name: up to MaxCalls calls, one   *)
(* after the other, with two revisions of a small chart.  The first has a  *)
(* values file; the second has a dependency and a schema file.             *)
(***************************************************************************)
MaxCalls == 2

RepeatCharts ==
    { MkChart(NameA, "r1", TRUE, FALSE, <<ValuesfileName>>, "absent", <<>>, <<>>, <<>>),
      MkChart(NameA, "r2", TRUE, FALSE, <<>>, "bad", <<>>, <<>>,
              <<Bare(NameD, "r2", <<>>)>>) }

InitRepeat ==
    /\ nm = <<>>
    /\ vres = Err("none", <<>>)
    /\ fs = EmptyFS
    /\ proc = [p \in Procs |-> IdleProc]
    /\ clock = 0
    /\ pool = [p \in Procs |-> RepeatCharts]
    /\ dirs = {OutDir}
    /\ callsLeft = MaxCalls
    /\ hist = <<>>
    /\ kw = NotWaiting

\* the steps of a caller that calls SaveDir, and with it Save for every
\* dependency (SaveDirSaved takes what such a Save returns)
NextRepeat ==
    \/ CallSaveDir(1)
    \/ SaveDirValidateName(1)
    \/ SaveDirStat(1)
    \/ SaveDirMkdirAll(1)
    \/ SaveDirChartfile(1)
    \/ SaveDirValues(1)
    \/ SaveDirSchema(1)
    \/ SaveDirFiles(1)
    \/ SaveDirDependencies(1)
    \/ SaveDirSaved(1)
    \/ SaveDirReturn(1)
    \/ SaveValidate(1)
    \/ SaveStat(1)
    \/ SaveMkdirAll(1)
    \/ SaveCreate(1)
    \/ TarValidateName(1)
    \/ TarChartfile(1)
    \/ TarLock(1)
    \/ TarValues(1)
    \/ TarSchema(1)
    \/ TarTemplates(1)
    \/ TarFiles(1)
    \/ TarDependencies(1)
    \/ SaveBuilt(1)
    \/ SaveCloseTar(1)
    \/ SaveCloseZip(1)
    \/ SaveCloseFile(1)
    \/ SaveRemove(1)

SpecRepeat == InitRepeat /\ [][NextRepeat]_vars

\* the steps of a caller that calls Save
SaveStep(p) ==
    \/ CallSave(p)
    \/ SaveValidate(p)
    \/ SaveStat(p)
    \/ SaveMkdirAll(p)
    \/ SaveCreate(p)
    \/ TarValidateName(p)
    \/ TarChartfile(p)
    \/ TarLock(p)
    \/ TarValues(p)
    \/ TarSchema(p)
    \/ TarTemplates(p)
    \/ TarFiles(p)
    \/ TarDependencies(p)
    \/ SaveBuilt(p)
    \/ SaveCloseTar(p)
    \/ SaveCloseZip(p)
    \/ SaveCloseFile(p)
    \/ SaveRemove(p)
    \/ SaveReturn(p)

(***************************************************************************)
(* Two calls of Save, one after the other, on one chart and one output     *)
(* directory.  The chart is either one with every kind of entry and two    *)
(* levels of dependencies, or one whose build fails at a schema two levels *)
(* down.  The first call finds no output directory and no archive; the     *)
(* second finds what the first has left.                                   *)
(***************************************************************************)
SameCharts ==
    { MkChart(NameA, "r1", TRUE, TRUE, <<ValuesfileName>>, "valid", <<TemplateT>>,
              <<FileF>>, <<Bare(NameD, "r1", <<Bare(NameE, "r1", <<>>)>>)>>),
      Bare(NameA, "r2", <<Bare(NameD, "r2", <<BadSchema(NameE)>>)>>) }

InitSame ==
    /\ nm = <<>>
    /\ vres = Err("none", <<>>)
    /\ fs = EmptyFS
    /\ proc = [p \in Procs |-> IdleProc]
    /\ clock = 0
    /\ pool \in {[p \in Procs |-> {c}] : c \in SameCharts}
    /\ dirs = {OutDir}
    /\ callsLeft = 2
    /\ hist = <<>>
    /\ kw = NotWaiting

NextSave == SaveStep(1)

SpecSame == InitSame /\ [][NextSave]_vars

\* the call before the one that runs now was a Save of the same chart to
\* the same directory, and it succeeded
SameSaveBefore(p) ==
    /\ hist # <<>>
    /\ hist[Len(hist)].op = "Save"
    /\ hist[Len(hist)].c = proc[p].c
    /\ hist[Len(hist)].dest = proc[p].dest
    /\ hist[Len(hist)].err = NoErr

\* C12: two sequential Save calls on the same chart tree and output
\* directory, neither of them failed by the environment, have the same
\* outcome (the same error or none, and the same returned path) and have
\* given the same entry paths in the same order to the archive, so that
\* two failing calls have failed at the same step; when both succeed the
\* archive the second call leaves holds the entries of the archive the
\* first call has left, the same paths in the same order with the same
\* content and nothing besides, and only the times of the entries may
\* differ.
C12_SameTreeSameEntries ==
    /\ \A j, k \in 1..Len(hist) :
          (/\ j < k
           /\ hist[j].op = "Save" /\ hist[k].op = "Save"
           /\ hist[j].c = hist[k].c /\ hist[j].dest = hist[k].dest
           /\ ~EnvironmentFailure(hist[j].err) /\ ~EnvironmentFailure(hist[k].err)) =>
             /\ hist[j].err = hist[k].err
             /\ hist[j].path = hist[k].path
             /\ hist[j].names = hist[k].names
    /\ \A p \in Procs :
          (/\ SaveReturning(p) /\ proc[p].op = "Save"
           /\ proc[p].serr = NoErr
           /\ SameSaveBefore(p)) =>
             /\ IsFileAt(proc[p].fs0, proc[p].spath)
             /\ IsFileAt(fs, proc[p].spath)
             /\ EntryNames(fs[proc[p].spath].entries) = hist[Len(hist)].names
             /\ Untimed(fs[proc[p].spath].entries)
                   = Untimed(proc[p].fs0[proc[p].spath].entries)

\* the second Save of a chart with two levels of dependencies has
\* succeeded as the first did, at a later time
C12_Witness ==
    /\ SaveReturning(1) /\ proc[1].op = "Save"
    /\ proc[1].serr = NoErr
    /\ SameSaveBefore(1)
    /\ Len(proc[1].stream) = 8
    /\ Len(proc[1].c.deps) = 1
    /\ LogHasEv(1, "create") /\ ~LogHasEv(1, "mkdir")
    /\ IsFileAt(proc[1].fs0, proc[1].spath)
    /\ Len(proc[1].fs0[proc[1].spath].entries) = 8
    /\ proc[1].fs0[proc[1].spath].entries[1].mtime # proc[1].stream[1].mtime
    /\ IsFileAt(fs, proc[1].spath)

(***************************************************************************)
(* Two callers that run Save at the same time: every step of one may come  *)
(* between any two steps of the other.                                     *)
(***************************************************************************)
\* the charts of the concurrent callers: caller 1 saves the one whose
\* build succeeds, caller 2 the one whose build fails and is rolled back
ParCharts ==
    { Bare(NameA, "r1", <<>>),
      MkChart(NameE, "r1", TRUE, FALSE, <<>>, "bad", <<>>, <<>>, <<>>) }

InitPar ==
    /\ nm = <<>>
    /\ vres = Err("none", <<>>)
    /\ fs \in {EmptyFS, FSWithFile}
    /\ proc = [p \in Procs |-> IdleProc]
    /\ clock = 0
    /\ pool = [p \in Procs |-> {c \in ParCharts : (c.schema = "bad") <=> (p = 2)}]
    /\ dirs = {OutDir}
    /\ callsLeft = Cardinality(Procs)
    /\ hist = <<>>
    /\ kw = NotWaiting

NextPar == \E p \in Procs : SaveStep(p)

SpecPar == InitPar /\ [][NextPar]_vars

\* Save as a whole, run alone from filesystem f in an environment that
\* fails nothing: what it returns and the entries of the file it leaves,
\* without their times (kept says whether it leaves one)
SaveAlone(c, outDir, f) ==
    LET filename == ArchivePath(c, outDir)
        dir == Dir(filename)
        built == BuiltEntries(c, <<>>)
        none == [path |-> <<>>, kept |-> FALSE, entries |-> <<>>]
    IN  IF Validate(c) # NoErr
        THEN [none EXCEPT !.path = <<>>] @@ [err |-> Wrap(<<"chart validation">>, Validate(c)),
                                             made |-> FALSE]
        ELSE IF Stat(f, dir) = "file"
        THEN none @@ [err |-> Err("DestinationConflict", dir), made |-> FALSE]
        ELSE IF Stat(f, dir) = "ENOTDIR"
        THEN none @@ [err |-> Wrap(<<"stat">> \o dir, Err("FilesystemFailure", dir)),
                      made |-> FALSE]
        ELSE IF ~CanCreate(IF Stat(f, dir) = "ENOENT" THEN MkdirAll(f, dir) ELSE f, filename)
        THEN none @@ [err |-> Err("FilesystemFailure", filename), made |-> FALSE]
        ELSE IF built.err # NoErr
        THEN [path |-> ReturnedPath(filename, built.err), kept |-> FALSE,
              entries |-> <<>>, err |-> built.err, made |-> TRUE]
        ELSE [path |-> ReturnedPath(filename, NoErr), kept |-> TRUE,
              entries |-> built.out, err |-> NoErr, made |-> TRUE]

\* the call of p has met no failure that the environment decides
Undisturbed(p) ==
    /\ \A k \in 1..Len(proc[p].log) :
          proc[p].log[k].ev \notin {"mkdirfail", "createfail", "entryfail", "marshalfail"}
    /\ LogHasEv(p, "statfail") =>
          Stat(proc[p].fs0, Dir(ArchivePath(proc[p].c, proc[p].dest))) = "ENOTDIR"
    /\ proc[p].rm # "failed"

\* the other caller is in no call, or its call targets another file
DistinctTargets(p, q) ==
    \/ proc[q].op = "none"
    \/ ArchivePath(proc[q].c, proc[q].dest) # ArchivePath(proc[p].c, proc[p].dest)

\* C13: a Save call that runs while another Save call with a different
\* output file runs, under any interleaving of their steps, returns what it
\* returns when run alone and leaves at its own path what it leaves when
\* run alone (the archive, or no file after a rollback); this stays so
\* while the other call goes on, so the rollback of one does not delete or
\* alter the file of the other.
C13_DistinctTargetsDoNotInterfere ==
    \A p, q \in Procs :
       (/\ p # q
        /\ proc[p].op = "Save"
        /\ proc[p].pc \in {"sv_ret", "done"}
        /\ DistinctTargets(p, q)
        /\ Undisturbed(p)) =>
          LET alone == SaveAlone(proc[p].c, proc[p].dest, proc[p].fs0)
              target == ArchivePath(proc[p].c, proc[p].dest)
          IN  /\ proc[p].spath = alone.path
              /\ proc[p].serr = alone.err
              /\ alone.kept =>
                    /\ IsFileAt(fs, target)
                    /\ Untimed(fs[target].entries) = alone.entries
                    /\ fs[target].sealed = Flushed(proc[p].closes)
              /\ (alone.made /\ ~alone.kept) => ~Exists(fs, target)
              /\ ~alone.made =>
                    /\ Exists(fs, target) <=> Exists(proc[p].fs0, target)
                    /\ Exists(fs, target) => fs[target] = proc[p].fs0[target]

C13_Witness ==
    /\ proc[1].pc = "done" /\ proc[2].pc = "done"
    /\ Len(hist) = 2
    /\ hist[1].c = proc[2].c
    /\ hist[1].err.kind = "MalformedSchema"
    /\ hist[2].err = NoErr
    /\ LogHasEv(1, "mkdir") /\ LogHasEv(2, "mkdir")
    /\ LogHasEv(2, "remove")
    /\ IsFileAt(fs, hist[2].path)
    /\ fs[hist[2].path].sealed

\* the steps at which a build fails inside a chart whose place in the tree
\* the step records
BuildFailures == {"badschema", "entryfail", "marshalfail"}

\* the place prefix/name of the chart in which the build of the call failed
\* (empty when no build failed)
FailedChart(p) ==
    LET log == proc[p].log
        ks == {k \in 1..Len(log) : log[k].ev \in BuildFailures}
    IN  IF ks = {} THEN <<>>
        ELSE LET e == log[CHOOSE k \in ks : \A j \in ks : j <= k]
             IN  IF e.ev = "entryfail" THEN e.of ELSE e.arg

\* how many levels below the root of its archive a chart at this place is
LevelsBelow(place) ==
    Cardinality({i \in 1..Len(SplitPath(place)) : SplitPath(place)[i] = ChartsDir})

\* name occurs in the text note
Mentions(note, name) ==
    \E i \in 0..(Len(note) - Len(name)) : SubSeq(note, i + 1, i + Len(name)) = name

\* C14: in both output forms, when the writing of a nested dependency
\* fails, the error the top-level call returns carries one annotation for
\* every recursion level between the root and the failing dependency, one
\* of them names the failing dependency, and the kind of the cause is kept.
C14_DependencyErrorsCarryContext ==
    \A p \in Procs :
       (proc[p].pc = "done" /\ proc[p].ret.err # NoErr) =>
          LET place == FailedChart(p)
              levels == (IF LogHasEv(p, "depfail") THEN 1 ELSE 0)
                        + (IF place = <<>> THEN 0 ELSE LevelsBelow(place))
              failing == IF place = <<>> THEN ChartName(proc[p].sc) ELSE Base(place)
              ctx == proc[p].ret.err.ctx
          IN  levels > 0 =>
                 /\ Len(ctx) >= levels
                 /\ \E k \in 1..Len(ctx) : Mentions(ctx[k], failing)

\* what a SaveDir that gets through all its writes leaves at path for
\* chart c in directory outdir: what the last of its writes to that path
\* has put there (the static files are written last, before them the
\* templates, the schema, the values, and first the metadata)
SaveDirContent(c, outdir, path) ==
    LET o == c.templates \o c.files
        ks == {k \in 1..Len(o) : Join(outdir, o[k]) = path}
    IN  IF ks # {}
        THEN FileData(c, o[CHOOSE k \in ks : \A j \in ks : j <= k])
        ELSE IF c.schema # "absent" /\ path = Join(outdir, SchemafileName)
        THEN SchemaData(c)
        ELSE IF path = Join(outdir, ValuesfileName)
                /\ \E k \in 1..Len(c.raw) : c.raw[k] = ValuesfileName
        THEN FileData(c, ValuesfileName)
        ELSE MetadataYAML(c)

\* SaveDir has returned an error from one of its write steps
SaveDirWriteFailed(p) ==
    /\ proc[p].op = "SaveDir"
    /\ proc[p].pc \in {"sd_ret", "done"}
    /\ proc[p].ret.err # NoErr
    /\ LogHasEv(p, "writefail") \/ LogHasEv(p, "depfail")

\* C15: when a write step of SaveDir fails (the metadata, the values, the
\* schema, a template, a static file, the archive of a dependency) SaveDir
\* returns the error with no later step done, and every file that the
\* earlier steps of the call wrote is on disk with the content written: the
\* files of the chart and the archives of the dependencies saved before.
C15_SaveDirFailsFastKeepsFiles ==
    \A p \in Procs :
       SaveDirWriteFailed(p) =>
          LET log == proc[p].log
              c == proc[p].c
              deps == Dependencies(c)
          IN  /\ log[Len(log)].ev \in {"writefail", "depfail"}
              /\ \A k \in 1..Len(log) :
                    log[k].ev = "write" =>
                       /\ IsFileAt(fs, log[k].arg)
                       /\ fs[log[k].arg].body = SaveDirContent(c, proc[p].outdir, log[k].arg)
              /\ LogHasEv(p, "depfail") =>
                    \A i \in 1..(proc[p].i - 1) :
                       LET path == ArchivePath(deps[i], Join(proc[p].outdir, ChartsDir))
                       IN  /\ IsFileAt(fs, path)
                           /\ Untimed(fs[path].entries) = BuiltEntries(deps[i], <<>>).out

\* the paths of the files of chart c that SaveDir writes below outdir (the
\* archives of the dependencies apart)
SaveDirPaths(c, outdir) ==
    {Join(outdir, ChartfileName)}
    \cup {Join(outdir, ValuesfileName) : k \in {j \in 1..Len(c.raw) : c.raw[j] = ValuesfileName}}
    \cup (IF c.schema # "absent" THEN {Join(outdir, SchemafileName)} ELSE {})
    \cup {Join(outdir, c.templates[k]) : k \in 1..Len(c.templates)}
    \cup {Join(outdir, c.files[k]) : k \in 1..Len(c.files)}

\* the paths the call of p has touched so far
Touched(p) ==
    {proc[p].log[k].arg : k \in {j \in 1..Len(proc[p].log) :
                                   proc[p].log[j].ev \in {"write", "writefail", "create", "remove"}}}

\* the SaveDir calls of the history that got through all their file writes
WroteAllFiles(r) == r.op = "SaveDir" /\ r.err.kind \in {"nil", "MalformedSchema"}

\* C16: SaveDir into an existing chart directory adds and overwrites file by
\* file and clears nothing: every file that was there before the call and
\* whose path the call has not written is as it was; every path a call has
\* written holds the new content when the call has got through its writes;
\* and after a sequence of calls every file of a chart directory holds the
\* content of the last SaveDir call that wrote it.
C16_SaveDirAddsAndOverwrites ==
    /\ \A p \in Procs :
          proc[p].op = "SaveDir" =>
             /\ \A q \in DOMAIN proc[p].fs0 :
                   (proc[p].fs0[q].kind = "file" /\ q \notin Touched(p)) =>
                      (q \in DOMAIN fs /\ fs[q] = proc[p].fs0[q])
             /\ (/\ proc[p].pc \in {"sd_deps", "sv_validate", "sv_stat", "sv_mkdir",
                                   "sv_create", "sd_ret", "done"}
                 /\ ~LogHasEv(p, "writefail")
                 /\ LogHasEv(p, "write")) =>
                      \A q \in SaveDirPaths(proc[p].c, proc[p].outdir) :
                         /\ IsFileAt(fs, q)
                         /\ fs[q].body = SaveDirContent(proc[p].c, proc[p].outdir, q)
    /\ (Quiescent /\ \A k \in 1..Len(hist) : hist[k].op = "SaveDir" => WroteAllFiles(hist[k])) =>
          \A q \in DOMAIN fs :
             LET ks == {k \in 1..Len(hist) :
                          /\ hist[k].op = "SaveDir"
                          /\ q \in SaveDirPaths(hist[k].c, Join(hist[k].dest, ChartName(hist[k].c)))}
             IN  ks # {} =>
                    LET last == CHOOSE k \in ks : \A j \in ks : j <= k
                    IN  /\ fs[q].kind = "file"
                        /\ fs[q].body = SaveDirContent(hist[last].c,
                                           Join(hist[last].dest, ChartName(hist[last].c)), q)

C16_Witness ==
    /\ Quiescent
    /\ Len(hist) = 2
    /\ hist[1].op = "SaveDir" /\ hist[1].err = NoErr /\ hist[1].c.rev = "r1"
    /\ hist[2].op = "SaveDir" /\ hist[2].c.rev = "r2" /\ WroteAllFiles(hist[2])
    /\ fs[<<"out", "/", "a", "/", "Chart.yaml">>].body = MetadataYAML(hist[2].c)
    /\ fs[<<"out", "/", "a", "/">> \o SchemafileName].body = SchemaData(hist[2].c)
    /\ fs[<<"out", "/", "a", "/", "values.yaml">>].body = FileData(hist[1].c, ValuesfileName)

\* the Save in progress has opened its output file
Opened(p) == LogHas(p, Ev("create", proc[p].filename))

\* the last n steps of the call of p
LastSteps(p, n) ==
    IF Len(proc[p].log) < n THEN <<>>
    ELSE SubSeq(proc[p].log, Len(proc[p].log) - n + 1, Len(proc[p].log))

ThreeCloses == <<Ev("close", <<"tar">>), Ev("close", <<"gzip">>), Ev("close", <<"file">>)>>

\* what holds when a Save that has opened its file is about to return
EndsCommittedOrRolledBack(p) ==
    /\ [k \in 1..Len(proc[p].closes) |-> proc[p].closes[k].layer] = <<"tar", "gzip", "file">>
    /\ IsFileAt(fs, proc[p].filename) <=> proc[p].werr = NoErr
    /\ proc[p].werr = NoErr =>
          /\ LastSteps(p, 3) = ThreeCloses
          /\ proc[p].serr = NoErr
    /\ proc[p].werr # NoErr =>
          /\ LastSteps(p, 4) = ThreeCloses \o <<Ev("remove", proc[p].filename)>>
          /\ ~Exists(fs, proc[p].filename)
          /\ proc[p].serr = proc[p].werr

\* C17: a Save call that has opened its output file returns in one of two
\* states: the file is retained, if and only if the build returned no
\* error, or the file is deleted; in both the archive layer, the compression
\* layer and the file have been closed, in that order, and the deletion
\* comes after the three closes and before the return.
C17_CommittedOrRolledBack ==
    \A p \in Procs :
       /\ (SaveReturning(p) /\ Opened(p)) => EndsCommittedOrRolledBack(p)
       /\ (Building(p) /\ proc[p].pc # "sv_remove") => IsFileAt(fs, proc[p].filename)

\* the call before the current one of p was a Save that returned this path
\* without error
PreviousSaveLeft(path) ==
    /\ hist # <<>>
    /\ hist[Len(hist)].op = "Save"
    /\ hist[Len(hist)].err = NoErr
    /\ hist[Len(hist)].path = path

\* C18: Save opens its target by create-and-truncate and its rollback
\* deletes what is at the target path: when a Save has left an archive at P
\* and a later Save to P fails during the build, the file at P holds, from
\* the creation on, only what the later call has written, and when the
\* later call returns no file exists at P; the earlier archive is lost.
C18_FailedSaveDestroysEarlierArchive ==
    \A p \in Procs :
       (/\ proc[p].op = "Save"
        /\ Opened(p)
        /\ PreviousSaveLeft(proc[p].filename)
        /\ IsFileAt(proc[p].fs0, proc[p].filename)) =>
          /\ (Building(p) /\ proc[p].pc # "sv_remove") =>
                /\ IsFileAt(fs, proc[p].filename)
                /\ fs[proc[p].filename].entries = proc[p].stream
          /\ (SaveReturning(p) /\ proc[p].werr # NoErr) =>
                /\ ~Exists(fs, proc[p].filename)
                /\ fs # proc[p].fs0

\* the steps of Save before the build at which it can fail
EarlyFailures == {"invalid", "statfail", "conflict", "mkdirfail", "createfail"}

\* C19: what Save returns is decided by the chart validation, the
\* preparation of the output directory, the creation of the file and the
\* build alone: a Save that has opened its file returns the error of the
\* build, or none, whatever the three Close calls returned, and a Save that
\* returns before it opens the file returns the error of one of the earlier
\* steps.  When the build has succeeded the file is retained, and it is a
\* finished archive only if neither the Close of the archive layer nor the
\* Close of the compression layer, which flush into the file, has failed.
C19_CloseFailuresAreNotReported ==
    \A p \in Procs :
       SaveReturning(p) =>
          /\ Opened(p) =>
                /\ proc[p].serr = proc[p].werr
                /\ proc[p].werr = NoErr =>
                      /\ proc[p].spath = proc[p].filename
                      /\ IsFileAt(fs, proc[p].filename)
                      /\ fs[proc[p].filename].sealed = Flushed(proc[p].closes)
          /\ ~Opened(p) =>
                /\ proc[p].serr # NoErr
                /\ proc[p].log[Len(proc[p].log)].ev \in EarlyFailures

C19_Witness ==
    /\ SaveReturning(1)
    /\ Opened(1)
    /\ proc[1].serr = NoErr
    /\ Len(proc[1].closes) = 3
    /\ proc[1].closes[1].ok /\ ~proc[1].closes[2].ok /\ proc[1].closes[3].ok
    /\ IsFileAt(fs, proc[1].spath)
    /\ ~fs[proc[1].spath].sealed

(***************************************************************************)
(* kstatusWaiter.Wait.  The call converts the resources, starts the        *)
(* watcher, starts the collector's listener with its observer and blocks   *)
(* until the listener is done.  The watcher and the listener run beside    *)
(* the call: the watcher sends events on an unbuffered channel and closes  *)
(* it once the context it was given is done or after a fatal error; the    *)
(* listener takes the events one by one, stops at the first error event    *)
(* and otherwise stores a resource update and notifies the observer.       *)
(***************************************************************************)
MaxEvents == 3

MaxElapsed == 2

Timeouts == {0, 1}

ResA == "resA"

ResB == "resB"

\* status.Status, the values the watcher reports here
Statuses == {"Unknown", "InProgress", "Current", "Failed"}

CurrentStatus == "Current"

\* a resource of the list: its identifier, and whether
\* object.RuntimeToObjMeta can convert its object
Obj(id, meta) == [id |-> id, meta |-> meta]

ResourceLists ==
    { <<>>,
      <<Obj(ResA, TRUE)>>,
      <<Obj(ResA, TRUE), Obj(ResB, TRUE)>>,
      <<Obj(ResA, TRUE), Obj(ResB, FALSE)>> }

\* the events of the watcher: the new status of a resource, a sync event,
\* an error
UpdateEvent(id, st) == [type |-> "update", id |-> id, status |-> st]

SyncEvent == [type |-> "sync", id |-> "", status |-> ""]

ErrorEvent == [type |-> "error", id |-> "", status |-> ""]

\* the identifiers of the converted resources
Identifiers(objs) == {objs[k].id : k \in 1..Len(objs)}

Convertible(objs) == \A k \in 1..Len(objs) : objs[k].meta

\* context.TODO() with a deadline of timeout: done once the time is over
ParentDoneAtDeadline(timeout, elapsed) == elapsed >= timeout

\* ctx := context.TODO(): a context that is never done, whatever the
\* timeout and however long the call has run
ParentDone(timeout, elapsed) == FALSE

\* cancelCtx: done when it has been cancelled or when its parent is done
CancelCtxDone(w) == w.cancelled # "no" \/ ParentDone(w.timeout, w.elapsed)

\* aggregator.AggregateStatus over the statuses the collector holds
AggregateStatus(statuses, desired) ==
    LET held == {statuses[id] : id \in DOMAIN statuses}
    IN  IF held = {} THEN desired
        ELSE IF "Failed" \in held THEN "Failed"
        ELSE IF "Unknown" \in held THEN "Unknown"
        ELSE IF held = {desired} THEN desired
        ELSE "InProgress"

\* the call as it starts: resourceList and timeout are its arguments
WaitCalled(objs, timeout) ==
    [pc |-> "convert", objs |-> objs, timeout |-> timeout, elapsed |-> 0,
     resources |-> {}, statuses |-> <<>>, collError |-> FALSE,
     ch |-> <<>>, chOpen |-> FALSE, sent |-> 0, fatal |-> FALSE,
     cancelled |-> "no", cancelledAt |-> <<>>, done |-> FALSE,
     result |-> "none"]

WaitFrozen == <<nm, vres, fs, proc, clock, pool, dirs, callsLeft, hist>>

\* the loops over the resources, Watch and ListenWithObserver: a resource
\* that cannot be converted ends the call with that error (the deferred
\* cancel runs); otherwise the collector holds Unknown for every resource
WaitConvert ==
    /\ kw.pc = "convert"
    /\ kw' = IF Convertible(kw.objs)
             THEN [kw EXCEPT !.pc = "listening",
                             !.resources = Identifiers(kw.objs),
                             !.statuses = [id \in Identifiers(kw.objs) |-> "Unknown"],
                             !.chOpen = TRUE]
             ELSE [kw EXCEPT !.pc = "returned", !.result = "converr",
                             !.cancelled = "defer"]
    /\ UNCHANGED WaitFrozen

\* time passes while the call runs
WaitTick ==
    /\ kw.pc \in {"convert", "listening"}
    /\ kw.elapsed < MaxElapsed
    /\ kw' = [kw EXCEPT !.elapsed = @ + 1]
    /\ UNCHANGED WaitFrozen

\* the watcher sends an event; an error event is its last
WatcherSend ==
    /\ kw.pc \in {"listening", "returned"}
    /\ kw.chOpen /\ kw.ch = <<>> /\ ~kw.done /\ ~kw.fatal
    /\ kw.sent < MaxEvents
    /\ \E e \in {UpdateEvent(id, st) : id \in kw.resources, st \in Statuses}
                   \cup {SyncEvent, ErrorEvent} :
          kw' = [kw EXCEPT !.ch = <<e>>, !.sent = @ + 1,
                           !.fatal = (e.type = "error")]
    /\ UNCHANGED WaitFrozen

\* the watcher closes the channel: its context is done, or it has failed
WatcherClose ==
    /\ kw.chOpen
    /\ kw.ch = <<>>
    /\ CancelCtxDone(kw) \/ kw.fatal
    /\ kw' = [kw EXCEPT !.chOpen = FALSE]
    /\ UNCHANGED WaitFrozen

\* the listener takes an event: processEvent, then the observer, which
\* cancels cancelCtx when the aggregated status is Current
ListenerReceive ==
    /\ kw.ch # <<>>
    /\ ~kw.done
    /\ LET e == Head(kw.ch)
           statuses == IF e.type = "update"
                       THEN [kw.statuses EXCEPT ![e.id] = e.status]
                       ELSE kw.statuses
           reached == AggregateStatus(statuses, CurrentStatus) = CurrentStatus
       IN  kw' = IF e.type = "error"
                 THEN [kw EXCEPT !.ch = <<>>, !.collError = TRUE, !.done = TRUE]
                 ELSE [kw EXCEPT !.ch = <<>>, !.statuses = statuses,
                                 !.cancelled = IF reached /\ @ = "no"
                                               THEN "observer" ELSE @,
                                 !.cancelledAt = IF reached /\ kw.cancelled = "no"
                                                 THEN statuses ELSE @]
    /\ UNCHANGED WaitFrozen

\* the channel is closed and empty: the listener ends
ListenerEnd ==
    /\ kw.pc = "listening"
    /\ ~kw.done
    /\ ~kw.chOpen /\ kw.ch = <<>>
    /\ kw' = [kw EXCEPT !.done = TRUE]
    /\ UNCHANGED WaitFrozen

\* <-done and what follows: the collector's error, else the error of the
\* parent context, else nil; the deferred cancel runs
WaitReturn ==
    /\ kw.pc = "listening"
    /\ kw.done
    /\ kw' = [kw EXCEPT !.pc = "returned",
                        !.result = IF kw.collError THEN "collerr"
                                   ELSE IF ParentDone(kw.timeout, kw.elapsed)
                                        THEN "notready"
                                        ELSE "nil",
                        !.cancelled = IF @ = "no" THEN "defer" ELSE @]
    /\ UNCHANGED WaitFrozen

InitWait ==
    /\ nm = <<>>
    /\ vres = Err("none", <<>>)
    /\ fs = EmptyFS
    /\ proc = [p \in Procs |-> IdleProc]
    /\ clock = 0
    /\ pool = [p \in Procs |-> {}]
    /\ dirs = {}
    /\ callsLeft = 0
    /\ hist = <<>>
    /\ kw \in {WaitCalled(objs, t) : objs \in ResourceLists, t \in Timeouts}

NextWait ==
    \/ WaitConvert
    \/ WaitTick
    \/ WatcherSend
    \/ WatcherClose
    \/ ListenerReceive
    \/ ListenerEnd
    \/ WaitReturn

SpecWait == InitWait /\ [][NextWait]_vars

\* some resource of the call is not Current in the collector
SomeNotCurrent == \E id \in kw.resources : kw.statuses[id] # CurrentStatus

\* C20 as stated: the timeout never makes Wait return (the parent context
\* is never done and the "not all resources ready" error is never
\* returned); cancelCtx is cancelled before the return only by the
\* observer, when the aggregated status is Current; while a resource is not
\* Current and the watcher keeps the channel open Wait does not return; and
\* when the channel has ended with no collector error Wait returns nil.
C20_OpenChannelBlocksWait ==
    /\ kw.result # "notready"
    /\ ~ParentDone(kw.timeout, kw.elapsed)
    /\ kw.cancelled = "observer" =>
          AggregateStatus(kw.cancelledAt, CurrentStatus) = CurrentStatus
    /\ (kw.chOpen /\ SomeNotCurrent) => kw.pc # "returned"
    /\ (kw.pc = "returned" /\ kw.result # "converr" /\ ~kw.collError) =>
          kw.result = "nil"

\* C20 as amended: the timeout never makes Wait return.  The parent context
\* is never done, so Wait never returns the "not all resources ready" error
\* and the channel is never closed because the time is over; cancelCtx is
\* cancelled before the return only by the observer, at an event after
\* which the aggregated status of the collector is Current.  Wait returns
\* only with a conversion error, with the collector's error, or with nil.
\* With the collector's error it returns although the channel is still
\* open and a resource is not Current; that is the one return with an open
\* channel.  It returns nil only when the channel has ended with no
\* collector error, and then the observer has seen the aggregated status
\* Current; while the channel is open and no error has arrived the call
\* stays blocked.
C20_TimeoutNeverEndsWait ==
    /\ kw.result # "notready"
    /\ ~ParentDone(kw.timeout, kw.elapsed)
    /\ kw.cancelled = "observer" =>
          AggregateStatus(kw.cancelledAt, CurrentStatus) = CurrentStatus
    /\ (kw.pc = "listening" /\ kw.cancelled # "no") => kw.cancelled = "observer"
    /\ (kw.pc = "listening" /\ ~kw.chOpen) =>
          (kw.cancelled = "observer" \/ kw.collError)
    /\ (kw.pc = "listening" /\ kw.done /\ ~kw.collError) =>
          (~kw.chOpen /\ kw.ch = <<>>)
    /\ (kw.pc = "returned" /\ kw.chOpen) => kw.result = "collerr"
    /\ kw.pc = "returned" =>
          /\ kw.result \in {"converr", "collerr", "nil"}
          /\ kw.result = "converr" <=> ~Convertible(kw.objs)
          /\ kw.result = "collerr" <=> kw.collError
          /\ kw.result = "nil" =>
                /\ ~kw.chOpen /\ kw.ch = <<>>
                /\ kw.cancelled = "observer"

\* the call is still blocked after its timeout is over: a resource is not
\* Current and the channel is open
C20_Witness ==
    /\ kw.pc = "listening"
    /\ ~kw.done
    /\ kw.elapsed > kw.timeout
    /\ kw.chOpen
    /\ kw.sent = MaxEvents
    /\ kw.cancelled = "no"
    /\ kw.resources = {ResA, ResB}
    /\ kw.statuses[ResA] = "Current"
    /\ kw.statuses[ResB] = "InProgress"

====
